---- MODULE Spec2Model ----
(***************************************************************************)
(* The Snapshot ("Model") factory of dynamodb-graph-model.                 *)
(*                                                                         *)
(* Every Model is a JavaScript closure: the variables destructured from    *)
(* its options (node, data, properties, edges, maxGSIK, history) are       *)
(* closure variables that the methods assign, the getters of the public    *)
(* API read them, and `history` of the public API is a frozen copy taken   *)
(* at construction.  Arrays are objects: two Models may hold the same      *)
(* array, so arrays live in a heap of their own and Models hold            *)
(* references.  The graph store is an external collaborator: its replies   *)
(* are chosen nondeterministically, and replies of outstanding calls       *)
(* arrive in any order.                                                    *)
(***************************************************************************)
EXTENDS Integers, Sequences, FiniteSets, TLC

VARIABLES
    snaps,    \* heap of Model closures, in order of construction
    arrays,   \* heap of non-empty array objects (properties / edges lists)
    ops,      \* operations in flight (invoked, promise not yet settled)
    nOps,     \* number of operations invoked so far
    last,     \* the operation that threw or settled most recently
    cfg,      \* options the schema-driven create / update were built with
    defaults, \* the process-wide defaults of Model.config
    inv,      \* the latest invocation of the schema-driven create / update
    prev,     \* outcome of the invocation before it, when it was the same call
    cuids,    \* number of ids cuid() has produced
    nInv      \* number of invocations of create / update so far

snapVars == <<snaps, arrays, ops, nOps, last>>
schemaVars == <<cfg, defaults, inv, prev, cuids, nInv>>
vars == <<snaps, arrays, ops, nOps, last, cfg, defaults, inv, prev, cuids, nInv>>

----------------------------------------------------------------------------
(* Bounds and value domains *)

MaxOps == 2          \* operations invoked in one behaviour
MaxInvs == 2         \* invocations of the schema-driven create / update

Undefined == "undefined"
NoGSIK == -1         \* maxGSIK === undefined (a number otherwise)

Types == {"A", "B"}

Prop(t, d) == [Type |-> t, Data |-> d]
Edge(t, d) == [Type |-> t, Target |-> "n3", Data |-> d]

\* The lists a caller hands to Model(options), and the lists the store holds
GivenProps == <<Prop("A", "v0"), Prop("B", "v0")>>
GivenEdges == <<Edge("A", "t0"), Edge("B", "t0")>>
StoredProps == <<Prop("A", "v"), Prop("B", "v")>>
StoredEdges == <<Edge("A", "td"), Edge("B", "td")>>

Entry(id, what) == [op |-> id, what |-> what]

\* The response of the createEdge of the i-th edge of a config
EdgeEntry(id, i) == [op |-> id, what |-> "createEdge", edge |-> i]

----------------------------------------------------------------------------
(* Arrays *)

\* The array a reference denotes.  Reference 0 is an empty array that no
\* other Model can change: the `= []` default of the destructuring, or an
\* empty list of a store reply (no code pushes onto an array in place).
Arr(a, r) == IF r = 0 THEN <<>> ELSE a[r]

Alloc(a, content) ==
    IF content = <<>> THEN [a |-> a, r |-> 0]
    ELSE [a |-> Append(a, content), r |-> Len(a) + 1]

\* lodash findIndex over Type: 0-based index of the first match, -1 if none
findIndex(seq, type) ==
    IF \E i \in 1..Len(seq) : seq[i].Type = type
    THEN (CHOOSE i \in 1..Len(seq) :
              /\ seq[i].Type = type
              /\ \A j \in 1..(i - 1) : seq[j].Type # type) - 1
    ELSE -1

\* Array.prototype.pop ignores its argument and removes the LAST element,
\* in place
pop(a, r, index) ==
    IF r = 0 \/ Len(a[r]) = 0 THEN a
    ELSE [a EXCEPT ![r] = SubSeq(@, 1, Len(@) - 1)]

----------------------------------------------------------------------------
(* Model construction *)

Merge(options, override) ==
    [k \in DOMAIN options |->
        IF k \in DOMAIN override THEN override[k] ELSE options[k]]

\* Model(options): the closure variables start as the options; the public
\* `history` is Object.freeze(history.slice())
Model(options) ==
    [ options    |-> options,
      type       |-> options.type,
      tenant     |-> options.tenant,
      log        |-> options.log,
      node       |-> options.node,
      data       |-> options.data,
      properties |-> options.properties,
      edges      |-> options.edges,
      maxGSIK    |-> options.maxGSIK,
      history    |-> options.history,
      pubHistory |-> options.history ]

\* What a holder of Model i reads through the public API
View(h, a, i) ==
    [ node       |-> h[i].node,
      type       |-> h[i].type,
      tenant     |-> h[i].tenant,
      data       |-> h[i].data,
      properties |-> Arr(a, h[i].properties),
      edges      |-> Arr(a, h[i].edges),
      maxGSIK    |-> h[i].maxGSIK,
      history    |-> h[i].pubHistory ]

\* A newModel that writes the overrides into the receiver as well
newModelInPlace(h, s, override) ==
    Append([h EXCEPT ![s] = Model(Merge(h[s].options, override))],
           Model(Merge(h[s].options, override)))

\* newModel(override) of Model s: Model(Object.assign({}, options, override))
newModel(h, s, override) ==
    Append(h, Model(Merge(h[s].options, override)))

\* An emptyModel that forgets to clear the data and the lists
emptyModelKeeping(h, s, history) ==
    newModel(h, s, [node |-> Undefined, history |-> history])

emptyModel(h, s, history) ==
    newModel(h, s, [node |-> Undefined, data |-> Undefined,
                    properties |-> 0, edges |-> 0, history |-> history])

\* A tracker whose _history is the history of the closure
trackShared(st, e) ==
    [ h |-> [st.h EXCEPT ![st.s].history = Append(@, e)],
      s |-> st.s,
      t |-> Append(st.h[st.s].history, e) ]

\* createTracker().track(args): both the closure's history and the
\* tracker's own _history grow by args
track(st, e) ==
    [ h |-> [st.h EXCEPT ![st.s].history = Append(@, e)],
      s |-> st.s,
      t |-> Append(st.t, e) ]

----------------------------------------------------------------------------
(* Validation: the synchronous throws that precede every store call *)

\* A remove that forgets to check the node
removeErrorNoNode(node, type) ==
    IF type = Undefined THEN "Type is undefined" ELSE "none"

\* A create that forgets to check the node
createErrorNoNode(node, data, maxGSIK) ==
    IF data = Undefined THEN "Data is undefined"
    ELSE IF maxGSIK = NoGSIK THEN "Max GSIK is undefined"
    ELSE "none"

getError(node) ==
    IF node = Undefined THEN "Node is undefined" ELSE "none"

\* A set that forgets to check the data
setErrorNoData(node, type, data) ==
    IF node = Undefined THEN "Node is undefined"
    ELSE IF type = Undefined THEN "Type is undefined"
    ELSE "none"

setError(node, type, data) ==
    IF node = Undefined THEN "Node is undefined"
    ELSE IF type = Undefined THEN "Type is undefined"
    ELSE IF data = Undefined THEN "Data is undefined"
    ELSE "none"

connectError(node, type, target) ==
    IF node = Undefined THEN "Node is undefined"
    ELSE IF type = Undefined THEN "Type is undefined"
    ELSE IF target = Undefined THEN "Target is undefined"
    ELSE "none"

removeError(node, type) ==
    IF node = Undefined THEN "Node is undefined"
    ELSE IF type = Undefined THEN "Type is undefined"
    ELSE "none"

\* `if (node)`: a node id is a non-empty string, so it is truthy when defined
createError(node, data, maxGSIK) ==
    IF node # Undefined /\ node # "" THEN "Node already exists"
    ELSE IF data = Undefined THEN "Data is undefined"
    ELSE IF maxGSIK = NoGSIK THEN "Max GSIK is undefined"
    ELSE "none"

destroyError(node) ==
    IF node = Undefined THEN "Node is undefined" ELSE "none"

----------------------------------------------------------------------------
(* Operations in flight *)

\* The caller awaits the promise of one operation before it invokes the next
CanInvoke == nOps < MaxOps /\ ops = {}

Snaps == 1..Len(snaps)

NewOp(kind, s) ==
    [ id        |-> nOps + 1,
      kind      |-> kind,
      snap      |-> s,
      pc        |-> "start",
      pre       |-> View(snaps, arrays, s),   \* what s read as when invoked
      hist      |-> <<>>,                     \* the tracker's _history
      issued    |-> 0,                        \* store calls issued so far
      pending   |-> {},                       \* store calls outstanding
      pendingEdges |-> {},
      dataItems |-> <<>>,
      propItems |-> <<>>,
      edgeItems |-> <<>>,
      type      |-> Undefined,
      data      |-> Undefined,
      target    |-> Undefined,
      node      |-> Undefined,
      newNode   |-> Undefined,                \* the id handed to get / destroy
      maxGSIK   |-> NoGSIK,
      config    |-> <<>>,                     \* the properties of the config
      props     |-> <<>>,
      edges     |-> <<>> ]

Outcome(o, status, error, result, hist) ==
    [ id |-> o.id, kind |-> o.kind, snap |-> o.snap, status |-> status,
      error |-> error, result |-> result, hist |-> hist,
      issued |-> o.issued, pre |-> o.pre, newNode |-> o.newNode,
      type |-> o.type, config |-> o.config ]

\* The call throws synchronously: no promise, no store call
Threw(kind, s, error) ==
    /\ last' = Outcome(NewOp(kind, s), "threw", error, 0, <<>>)
    /\ nOps' = nOps + 1
    /\ UNCHANGED ops

\* The checks of Model(options): typeofMaxGSIK is typeof options.maxGSIK
modelError(type, typeofMaxGSIK, table) ==
    IF type = Undefined THEN "Type is undefined"
    ELSE IF typeofMaxGSIK \notin {"undefined", "number"}
    THEN "Max GSIK is not a number"
    ELSE IF table = Undefined THEN "Table is undefined"
    ELSE "none"

\* The maxGSIK of the options: undefined, a number, or a string
MaxGSIKOptions ==
    { [typeof |-> "undefined", value |-> NoGSIK],
      [typeof |-> "number", value |-> 0],
      [typeof |-> "string", value |-> NoGSIK] }

\* Model(options) called once more: it throws, or returns a new blank
\* Model; the driver is configured and no call is made to the store
ModelCall(type, g, table) ==
    /\ nOps < MaxOps
    /\ LET err == modelError(type, g.typeof, table)
           o   == [ id |-> nOps + 1, kind |-> "Model", snap |-> 0,
                    status |-> "returned", error |-> "none", result |-> 0,
                    hist |-> <<>>, issued |-> 0, pre |-> last.pre,
                    newNode |-> Undefined, type |-> type,
                    typeofMaxGSIK |-> g.typeof ]
       IN  IF err # "none"
           THEN /\ last' = [o EXCEPT !.status = "threw", !.error = err]
                /\ UNCHANGED <<snaps, arrays>>
           ELSE LET ap == Alloc(arrays, <<>>)
                    ae == Alloc(ap.a, <<>>)
                IN  /\ snaps' = Append(snaps,
                                       Model([ type |-> type, tenant |-> "t1",
                                               log |-> FALSE,
                                               node |-> Undefined,
                                               data |-> Undefined,
                                               properties |-> ap.r,
                                               edges |-> ae.r,
                                               maxGSIK |-> g.value,
                                               history |-> <<>> ]))
                    /\ arrays' = ae.a
                    /\ last' = [o EXCEPT !.result = Len(snaps) + 1]
    /\ nOps' = nOps + 1
    /\ UNCHANGED ops

Started(o) ==
    /\ ops' = ops \cup {o}
    /\ nOps' = nOps + 1
    /\ UNCHANGED last

\* The promise of o settles.  Store calls of o that are still outstanding
\* are dropped: their callbacks can only call track, whose effect (the
\* closure variable history) no Model shows
Settled(o, status, error, result, hist) ==
    /\ ops' = {p \in ops : p.id # o.id}
    /\ last' = Outcome(o, status, error, result, hist)
    /\ UNCHANGED nOps

Continue(o, o2) ==
    /\ ops' = {p \in ops : p.id # o.id} \cup {o2}
    /\ UNCHANGED <<last, nOps>>

\* catch (error => { track(error); throw error }), run on heap h with the
\* tracker holding hist
RejectedFrom(o, h, hist, error) ==
    LET st == track([h |-> h, s |-> o.snap, t |-> hist], Entry(o.id, error))
    IN  /\ snaps' = st.h
        /\ Settled(o, "rejected", error, 0, st.t)

Rejected(o, error) == RejectedFrom(o, snaps, o.hist, error)

----------------------------------------------------------------------------
(* collection() *)

\* A row of the reply of getNodesWithPropertiesAndEdges
Row(node, data, properties, edges) ==
    [Node |-> node, Data |-> data, Properties |-> properties, Edges |-> edges]

\* The replies of the store: no row, or two rows
CollectionReplies ==
    { <<>>,
      <<Row("n5", "d5", StoredProps, StoredEdges), Row("n6", "d6", <<>>, <<>>)>> }

\* collection(): one query, with the type, the tenant and the partition
\* count of the closure; nothing is checked and nothing is tracked
CollectionCall(s) ==
    /\ CanInvoke
    /\ Started([query |-> [ fn |-> "getNodesWithPropertiesAndEdges",
                            type |-> snaps[s].type,
                            tenant |-> snaps[s].tenant,
                            maxGSIK |-> snaps[s].maxGSIK ]]
               @@ [NewOp("collection", s) EXCEPT !.pc = "query", !.issued = 1])
    /\ UNCHANGED <<snaps, arrays>>

\* A map that drops the last row
RECURSIVE collectionThenButLast(_, _, _, _)
collectionThenButLast(h, a, s, items) ==
    IF Len(items) <= 1 THEN [h |-> h, a |-> a, list |-> <<>>]
    ELSE LET ap == Alloc(a, Head(items).Properties)
             ae == Alloc(ap.a, Head(items).Edges)
             h1 == newModel(h, s, [ node |-> Head(items).Node,
                                    data |-> Head(items).Data,
                                    properties |-> ap.r, edges |-> ae.r ])
             r  == collectionThenButLast(h1, ae.a, s, Tail(items))
         IN  [r EXCEPT !.list = <<Len(h1)>> \o @]

\* response.Items.map(item => newModel({node: item.Node, data: item.Data,
\*     properties: item.Properties, edges: item.Edges}))
RECURSIVE collectionThen(_, _, _, _)
collectionThen(h, a, s, items) ==
    IF items = <<>> THEN [h |-> h, a |-> a, list |-> <<>>]
    ELSE LET ap == Alloc(a, Head(items).Properties)
             ae == Alloc(ap.a, Head(items).Edges)
             h1 == newModel(h, s, [ node |-> Head(items).Node,
                                    data |-> Head(items).Data,
                                    properties |-> ap.r, edges |-> ae.r ])
             r  == collectionThen(h1, ae.a, s, Tail(items))
         IN  [r EXCEPT !.list = <<Len(h1)>> \o @]

\* The store answers the query.  collection has no catch-callback: a
\* failure rejects the promise and is tracked nowhere
CollectionReply(o, ok, items) ==
    /\ o \in ops /\ o.kind = "collection"
    /\ ops' = {p \in ops : p.id # o.id}
    /\ UNCHANGED nOps
    /\ IF ~ok
       THEN /\ last' = [list |-> <<>>, rows |-> <<>>, query |-> o.query]
                           @@ Outcome(o, "rejected", "StoreError", 0, <<>>)
            /\ UNCHANGED <<snaps, arrays>>
       ELSE LET r == collectionThen(snaps, arrays, o.snap, items)
            IN  /\ snaps' = r.h
                /\ arrays' = r.a
                /\ last' = [list |-> r.list, rows |-> items,
                            query |-> o.query]
                               @@ Outcome(o, "resolved", "none", 0, <<>>)

----------------------------------------------------------------------------
(* get(newNode) *)

\* get(newNode), from the call to the promise it returns
get(s, newNode) ==
    /\ LET h1  == IF newNode # Undefined
                  THEN [snaps EXCEPT ![s].node = newNode] ELSE snaps
           err == getError(h1[s].node)
       IN  /\ snaps' = h1
           /\ IF err # "none" THEN Threw("get", s, err)
              ELSE Started([NewOp("get", s) EXCEPT
                       !.pc = "reads", !.node = h1[s].node, !.issued = 3,
                       !.newNode = newNode,
                       !.pending = {"getNodeData", "getNodeProperties",
                                    "getNodeEdges"}])
    /\ UNCHANGED arrays

GetCall(s, newNode) == CanInvoke /\ get(s, newNode)

\* A then-callback that forgets the edges it read
getThenNoEdges(h, a, o) ==
    LET s == o.snap IN
    IF o.dataItems = <<>>
    THEN LET st == track([h |-> h, s |-> s, t |-> o.hist],
                         Entry(o.id, "TypeError"))
         IN [h |-> st.h, a |-> a, status |-> "rejected",
             error |-> "TypeError", result |-> 0, hist |-> st.t]
    ELSE LET data == o.dataItems[1].Data
             ap == Alloc(a, o.propItems)
             h1 == [h EXCEPT ![s].data = data, ![s].properties = ap.r]
             st == track([h |-> h1, s |-> s, t |-> o.hist],
                         Entry(o.id, "getNodeData"))
             h2 == newModel(st.h, s, [history |-> st.t, data |-> data,
                                      properties |-> ap.r, edges |-> 0])
         IN [h |-> h2, a |-> ap.a, status |-> "resolved",
             error |-> "none", result |-> Len(h2), hist |-> st.t]

\* The then-callback of Promise.all([...three reads...])
getThen(h, a, o) ==
    LET s == o.snap IN
    IF o.dataItems = <<>>
    THEN \* dataResult.Items[0] is undefined: TypeError, caught below
         LET st == track([h |-> h, s |-> s, t |-> o.hist],
                         Entry(o.id, "TypeError"))
         IN [h |-> st.h, a |-> a, status |-> "rejected",
             error |-> "TypeError", result |-> 0, hist |-> st.t]
    ELSE LET data == o.dataItems[1].Data
             ap == Alloc(a, o.propItems)
             ae == Alloc(ap.a, o.edgeItems)
             h1 == [h EXCEPT ![s].data = data,
                             ![s].properties = ap.r,
                             ![s].edges = ae.r]
             \* track(dataResult, propertiesResult, edgesResult): track
             \* has ONE parameter, the second and third are dropped
             st == track([h |-> h1, s |-> s, t |-> o.hist],
                         Entry(o.id, "getNodeData"))
             h2 == newModel(st.h, s, [history |-> st.t, data |-> data,
                                      properties |-> ap.r, edges |-> ae.r])
         IN [h |-> h2, a |-> ae.a, status |-> "resolved",
             error |-> "none", result |-> Len(h2), hist |-> st.t]

GetReply(o, c, ok, items) ==
    /\ o \in ops /\ o.kind = "get" /\ c \in o.pending
    /\ IF ~ok
       THEN /\ Rejected(o, "StoreError")
            /\ UNCHANGED arrays
       ELSE LET o2 == [o EXCEPT
                         !.pending = @ \ {c},
                         !.dataItems = IF c = "getNodeData" THEN items ELSE @,
                         !.propItems = IF c = "getNodeProperties" THEN items ELSE @,
                         !.edgeItems = IF c = "getNodeEdges" THEN items ELSE @]
            IN IF o2.pending # {}
               THEN /\ Continue(o, o2)
                    /\ UNCHANGED <<snaps, arrays>>
               ELSE LET r == getThen(snaps, arrays, o2)
                    IN  /\ snaps' = r.h
                        /\ arrays' = r.a
                        /\ Settled(o, r.status, r.error, r.result, r.hist)

\* What the store may answer to a read: the node row may be missing
GetReplies(c) ==
    IF c = "getNodeData" THEN {<<>>, <<[Data |-> "d1"]>>}
    ELSE IF c = "getNodeProperties" THEN {StoredProps}
    ELSE {StoredEdges}

----------------------------------------------------------------------------
(* set(config) and connect(config) *)

\* `if (isObject(target) && target.node) target = target.node`: tm > 0 says
\* that the target is given as Model tm
resolveTarget(h, target, tm) ==
    IF tm = 0 THEN target
    ELSE IF h[tm].node # Undefined /\ h[tm].node # "" THEN h[tm].node
    ELSE "[object Object]"

\* A start that looks the partition count up whether it is known or not
StartWriteAlways(o, s) ==
    Started([o EXCEPT !.pc = "lookup", !.issued = 1, !.node = snaps[s].node])

\* The synchronous part shared by set and connect, after validation: with
\* maxGSIK unknown the lookup getNode(node) is issued at once; the write
\* is issued from a later callback of the `start` promise
StartWrite(o, s) ==
    IF snaps[s].maxGSIK = NoGSIK
    THEN Started([o EXCEPT !.pc = "lookup", !.issued = 1,
                           !.node = snaps[s].node])
    ELSE Started(o)

\* set({type, data}), from the call to the promise it returns
set(s, type, data) ==
    /\ LET err == setError(snaps[s].node, type, data)
       IN IF err # "none" THEN Threw("set", s, err)
          ELSE StartWrite([NewOp("set", s) EXCEPT
                              !.type = type, !.data = data], s)
    /\ UNCHANGED <<snaps, arrays>>

SetCall(s, type, data) == CanInvoke /\ set(s, type, data)

\* connect({type, target}), from the call to the promise it returns
connect(s, type, target, tm) ==
    /\ LET tg  == resolveTarget(snaps, target, tm)
           err == connectError(snaps[s].node, type, tg)
       IN IF err # "none" THEN Threw("connect", s, err)
          ELSE StartWrite([NewOp("connect", s) EXCEPT
                              !.type = type, !.target = tg], s)
    /\ UNCHANGED <<snaps, arrays>>

ConnectCall(s, type, target, tm) == CanInvoke /\ connect(s, type, target, tm)

\* getMaxGSIK(): the then-callback assigns maxGSIK (also when the row has
\* none) and throws 'Max GSIK is undefined'; the catch-callback calls
\* track, which is not in scope there, so every failure of the lookup
\* surfaces as the ReferenceError of the catch-callback
getMaxGSIK(h, s, ok, items) ==
    IF ~ok \/ items = <<>>
    THEN [h |-> h, error |-> "track is not defined"]
    ELSE LET h1 == [h EXCEPT ![s].maxGSIK = items[1].MaxGSIK]
         IN IF items[1].MaxGSIK = NoGSIK
            THEN [h |-> h1, error |-> "track is not defined"]
            ELSE [h |-> h1, error |-> "none"]

LookupReplies == {<<>>, <<[MaxGSIK |-> NoGSIK]>>, <<[MaxGSIK |-> 4]>>}

LookupReply(o, ok, items) ==
    /\ o \in ops /\ o.kind \in {"set", "connect"} /\ o.pc = "lookup"
    /\ LET r == getMaxGSIK(snaps, o.snap, ok, items)
       IN IF r.error # "none"
          THEN /\ snaps' = r.h
               /\ Settled(o, "rejected", r.error, 0, o.hist)
          ELSE LET st == track([h |-> r.h, s |-> o.snap, t |-> o.hist],
                               Entry(o.id, "getNode"))
               IN /\ snaps' = st.h
                  /\ Continue(o, [o EXCEPT !.pc = "start", !.hist = st.t])
    /\ UNCHANGED arrays

\* start.then(() => db.createProperty / db.createEdge ({tenant, node, type,
\* ..., maxGSIK})): node and maxGSIK are read when the callback runs
IssueWrite(o) ==
    /\ o \in ops /\ o.kind \in {"set", "connect"} /\ o.pc = "start"
    /\ Continue(o, [o EXCEPT !.pc = "write", !.issued = @ + 1,
                             !.node = snaps[o.snap].node,
                             !.maxGSIK = snaps[o.snap].maxGSIK])
    /\ UNCHANGED <<snaps, arrays>>

WriteReply(o, ok) ==
    /\ o \in ops /\ o.kind \in {"set", "connect"} /\ o.pc = "write"
    /\ IF ~ok
       THEN /\ Rejected(o, "StoreError")
            /\ UNCHANGED arrays
       ELSE LET s  == o.snap
                st == track([h |-> snaps, s |-> s, t |-> o.hist],
                            Entry(o.id, IF o.kind = "set" THEN "createProperty"
                                        ELSE "createEdge"))
            IN IF o.kind = "set"
               THEN /\ snaps' = newModel(st.h, s, [history |-> st.t])
                    /\ UNCHANGED arrays
                    /\ Settled(o, "resolved", "none", Len(snaps) + 1, st.t)
               ELSE \* edges.concat(result.Item): a new array
                    LET item == [Type |-> o.type, Target |-> o.target,
                                 Data |-> "td"]
                        ae == Alloc(arrays,
                                    Append(Arr(arrays, snaps[s].edges), item))
                    IN /\ snaps' = newModel(st.h, s, [edges |-> ae.r,
                                                     history |-> st.t])
                       /\ arrays' = ae.a
                       /\ Settled(o, "resolved", "none", Len(snaps) + 1, st.t)

----------------------------------------------------------------------------
(* remove(type), also published as disconnect *)

RemoveCall(s, type) ==
    /\ CanInvoke
    /\ LET err == removeError(snaps[s].node, type)
       IN IF err # "none" THEN Threw("remove", s, err)
          ELSE Started([NewOp("remove", s) EXCEPT
                           !.pc = "delete", !.issued = 1, !.type = type,
                           !.node = snaps[s].node])
    /\ UNCHANGED <<snaps, arrays>>

\* The then-callback of deletePropertyOrEdge: the lists of the receiver are
\* popped in place, and the new Model is built from the receiver's options
removeThen(h, a, s, type) ==
    LET p  == h[s].properties
        ip == findIndex(Arr(a, p), type)
        a1 == IF Len(Arr(a, p)) > 0 /\ ip > -1 THEN pop(a, p, ip) ELSE a
        e  == h[s].edges
        ie == findIndex(Arr(a1, e), type)
    IN IF Len(Arr(a1, e)) > 0 /\ ie > -1 THEN pop(a1, e, ie) ELSE a1

RemoveReply(o, ok) ==
    /\ o \in ops /\ o.kind = "remove"
    /\ IF ~ok
       THEN /\ Rejected(o, "StoreError")
            /\ UNCHANGED arrays
       ELSE LET st == track([h |-> snaps, s |-> o.snap, t |-> o.hist],
                            Entry(o.id, "deletePropertyOrEdge"))
            IN /\ arrays' = removeThen(snaps, arrays, o.snap, o.type)
               /\ snaps' = newModel(st.h, o.snap, [history |-> st.t])
               /\ Settled(o, "resolved", "none", Len(snaps) + 1, st.t)

----------------------------------------------------------------------------
(* destroy(newNode) *)

\* destroy(newNode), from the call to the promise it returns
destroy(s, newNode) ==
    /\ LET h1  == IF newNode # Undefined
                  THEN [snaps EXCEPT ![s].node = newNode] ELSE snaps
           err == destroyError(h1[s].node)
       IN  /\ snaps' = h1
           /\ IF err # "none" THEN Threw("destroy", s, err)
              ELSE Started([NewOp("destroy", s) EXCEPT
                       !.pc = "delete", !.issued = 1, !.node = h1[s].node,
                       !.newNode = newNode])
    /\ UNCHANGED arrays

DestroyCall(s, newNode) == CanInvoke /\ destroy(s, newNode)

DestroyReply(o, ok) ==
    /\ o \in ops /\ o.kind = "destroy"
    /\ IF ~ok
       THEN Rejected(o, "StoreError")
       ELSE LET st == track([h |-> snaps, s |-> o.snap, t |-> o.hist],
                            Entry(o.id, "deleteNode"))
            IN /\ snaps' = emptyModel(st.h, o.snap, st.t)
               /\ Settled(o, "resolved", "none", Len(snaps) + 1, st.t)
    /\ UNCHANGED arrays

----------------------------------------------------------------------------
(* create(config) *)

ConfigProps == {<<>>, <<Prop("A", "v")>>}
ConfigEdges == {<<>>, <<Edge("A", Undefined)>>}

\* A config whose edges name two targets
TwoEdges == <<Edge("A", Undefined), Edge("B", Undefined)>>

LogProps == <<[Type |-> "CreatedAt", Data |-> "now"],
              [Type |-> "UpdatedAt", Data |-> "now"]>>

\* A create that ignores the log flag
withLogNever(log, properties) == properties

\* if (log === true) properties = properties.concat([CreatedAt, UpdatedAt])
withLog(log, properties) ==
    IF log THEN properties \o LogProps ELSE properties

CreateCall(s, data, props, edges) ==
    /\ CanInvoke
    /\ LET err == createError(snaps[s].node, data, snaps[s].maxGSIK)
       IN IF err # "none" THEN Threw("create", s, err)
          ELSE Started([NewOp("create", s) EXCEPT
                           !.pc = "createNode", !.issued = 1, !.data = data,
                           !.props = props, !.config = props,
                           !.edges = edges])
    /\ UNCHANGED <<snaps, arrays>>

\* The last then-callback of create: the new Model carries the lists of the
\* config (the edges with the Data the store returned)
createThen(h, a, o) ==
    LET ap == Alloc(a, o.props)
        ae == Alloc(ap.a, o.edges)
    IN [h |-> newModel(h, o.snap,
                       [node |-> o.node, data |-> o.data,
                        properties |-> ap.r, edges |-> ae.r,
                        history |-> o.hist]),
        a |-> ae.a]

\* Either the fan-out goes on, or every write is in and create resolves
CreateStep(o, o2, h) ==
    IF o2.pending # {} \/ o2.pendingEdges # {}
    THEN /\ snaps' = h
         /\ Continue(o, o2)
         /\ UNCHANGED arrays
    ELSE LET r == createThen(h, arrays, o2)
         IN /\ snaps' = r.h
            /\ arrays' = r.a
            /\ Settled(o2, "resolved", "none", Len(r.h), o2.hist)

\* The then-callback of createNode
CreateNodeReply(o, ok, item) ==
    /\ o \in ops /\ o.kind = "create" /\ o.pc = "createNode"
    /\ IF ~ok
       THEN /\ Rejected(o, "StoreError")
            /\ UNCHANGED arrays
       ELSE IF item = Undefined
       THEN /\ Rejected(o, "Item is undefined")
            /\ UNCHANGED arrays
       ELSE LET st == track([h |-> snaps, s |-> o.snap, t |-> o.hist],
                            Entry(o.id, "createNode"))
                props == withLog(snaps[o.snap].log, o.props)
                o2 == [o EXCEPT
                         !.pc = "writes", !.node = item, !.hist = st.t,
                         !.props = props,
                         !.pending = IF Len(props) > 0
                                     THEN {"createProperties"} ELSE {},
                         !.pendingEdges = 1..Len(o.edges),
                         !.issued = @ + (IF Len(props) > 0 THEN 1 ELSE 0)
                                      + Len(o.edges)]
            IN CreateStep(o, o2, st.h)

CreatePropertiesReply(o, ok) ==
    /\ o \in ops /\ o.kind = "create" /\ "createProperties" \in o.pending
    /\ IF ~ok
       THEN /\ Rejected(o, "StoreError")
            /\ UNCHANGED arrays
       ELSE LET st == track([h |-> snaps, s |-> o.snap, t |-> o.hist],
                            Entry(o.id, "createProperties"))
            IN CreateStep(o, [o EXCEPT !.pending = {}, !.hist = st.t], st.h)

\* The callbacks of one createEdge of the fan-out.  An error is tracked by
\* the catch of the edge and again by the catch of create.  (The Model the
\* then-callback builds with newModel is dropped by Promise.all.)
CreateEdgeReply(o, i, ok, edgeData) ==
    /\ o \in ops /\ o.kind = "create" /\ i \in o.pendingEdges
    /\ LET st0 == [h |-> snaps, s |-> o.snap, t |-> o.hist]
       IN IF ~ok
          THEN LET st == track(st0, Entry(o.id, "StoreError"))
               IN /\ RejectedFrom(o, st.h, st.t, "StoreError")
                  /\ UNCHANGED arrays
          ELSE LET st == track(st0, EdgeEntry(o.id, i))
               IN IF edgeData = Undefined
                  THEN LET st1 == track(st, Entry(o.id, "Data is undefined"))
                       IN /\ RejectedFrom(o, st1.h, st1.t, "Data is undefined")
                          /\ UNCHANGED arrays
                  ELSE CreateStep(o, [o EXCEPT !.pendingEdges = @ \ {i},
                                               !.hist = st.t,
                                               !.edges[i].Data = edgeData],
                                  st.h)

----------------------------------------------------------------------------
(* Schema-driven create(options)(doc) and update(options)(doc) *)

\* A JavaScript object with string values: a function from its keys.  A
\* doc is held in two parts: f, the keys with string (or undefined) values,
\* and l, the keys whose values are arrays of target ids
NoKeys == <<>>

NoDoc == [f |-> NoKeys, l |-> NoKeys]

\* Object.assign(a, b): the keys of b replace those of a
Assign(a, b) == b @@ a

\* cuid(): the n-th id the process produces.  Ids are made of [a-z0-9] and
\* no two are equal
cuid(n) == "c" \o ToString(n)

Cuids == {cuid(n) : n \in 1..cuids}

\* The options: Book with key Name, property Genre and, when edges are
\* declared, the edge Author and the list edge Likes[], alone or next to
\* the list edge Likes2[] whose name begins with Likes
\* isFunction(options.nodeGenerator) || (options.nodeGenerator = cuid):
\* the options of a Model built without a generator name cuid
BookOptions(tenant, edges) ==
    [ tenant |-> tenant, type |-> "Book", key |-> "Name", maxGSIK |-> 4,
      properties |-> <<"Genre">>, edges |-> edges, nodeGenerator |-> "cuid" ]

\* A generator in the manner of ({number}) => `season#${number}`
byName(doc) == "book#" \o doc.f["Name"]

SchemaOptions ==
    { BookOptions(t, es) :
        t \in {Undefined, "t1"}, es \in {<<>>, <<"Author", "Likes[]">>} }
        \cup { [BookOptions("t1", es) EXCEPT !.nodeGenerator = "byName"] :
                   es \in {<<>>, <<"Author", "Likes[]">>} }
        \cup {BookOptions("t1", <<"Author", "Likes[]", "Likes2[]">>)}

\* edge.indexOf('[]') > -1
isList(edge) == edge \in {"Likes[]", "Likes2[]"}

\* edge.replace('[]', '')
stripList(edge) ==
    IF edge = "Likes[]" THEN "Likes"
    ELSE IF edge = "Likes2[]" THEN "Likes2" ELSE edge

\* The ids under which the store holds the elements of the list edges
StoredIds == {"k1", "k2", "k3"}

\* type.split('#') of a type that is a declared name, or a declared name
\* joined by '#' to an id
split(type) ==
    LET Names == {stripList(cfg.edges[i]) : i \in 1..Len(cfg.edges)}
        Parts == {p \in Names \X (Cuids \cup StoredIds) :
                      type = p[1] \o "#" \o p[2]}
    IN  IF Parts = {} THEN <<type>>
        ELSE LET p == CHOOSE p \in Parts : TRUE IN <<p[1], p[2]>>

\* doc[k] for a key that holds no array
Scalar(doc, k) == IF k \in DOMAIN doc.f THEN doc.f[k] ELSE Undefined

\* The denormalized data the store holds for the target of an edge
StoredData(target) ==
    IF target = "a1" THEN "Brandon Sanderson"
    ELSE IF target = "u1" THEN "Bob"
    ELSE IF target = "u2" THEN "Alicia" ELSE "Carol"

NoItem == [Type |-> Undefined, Data |-> Undefined, Target |-> Undefined]

\* A call that reads the tenant and the partition count from the defaults
StoreCallFromDefaults(fn, group, node, type, data, target, edge) ==
    [ fn |-> fn, group |-> group, edge |-> edge,
      tenant |-> IF "tenant" \in DOMAIN defaults THEN defaults["tenant"]
                 ELSE cfg.tenant,
      node |-> node, type |-> type, data |-> data, target |-> target,
      maxGSIK |-> IF "maxGSIK" \in DOMAIN defaults THEN defaults["maxGSIK"]
                  ELSE cfg.maxGSIK,
      status |-> "pending", item |-> NoItem ]

\* A call of the store, as the spy on the driver sees it, with the state of
\* its promise and the Item it resolved to
StoreCall(fn, group, node, type, data, target, edge) ==
    [ fn |-> fn, group |-> group, edge |-> edge,
      tenant |-> cfg.tenant, node |-> node, type |-> type, data |-> data,
      target |-> target, maxGSIK |-> cfg.maxGSIK,
      status |-> "pending", item |-> NoItem ]

\* A property write for every declared property, defined in doc or not
propertyWritesAll(doc, node) ==
    [i \in 1..Len(cfg.properties) |->
        StoreCall("createProperty", "properties", node, cfg.properties[i],
                  Scalar(doc, cfg.properties[i]), Undefined, Undefined)]

\* properties.filter(property => doc[property] !== undefined)
\*           .map(property => db.createProperty({...}))
propertyWrites(doc, node) ==
    LET ps == SelectSeq(cfg.properties,
                        LAMBDA p : Scalar(doc, p) # Undefined)
    IN  [i \in 1..Len(ps) |->
            StoreCall("createProperty", "properties", node, ps[i],
                      Scalar(doc, ps[i]), Undefined, Undefined)]

\* An edge write for every declared edge, defined in doc or not
edgeWritesAll(doc, node) ==
    [i \in 1..Len(cfg.edges) |->
        StoreCall("createEdge", "edges", node, cfg.edges[i], Undefined,
                  Scalar(doc, cfg.edges[i]), Undefined)]

\* edges.filter(edge => doc[edge] !== undefined)
\*      .map(edge => db.createEdge({...})): the filter runs over every
\* declared name, 'Likes[]' included, which is no key of a doc
edgeWrites(doc, node) ==
    LET es == SelectSeq(cfg.edges, LAMBDA e : Scalar(doc, e) # Undefined)
    IN  [i \in 1..Len(es) |->
            StoreCall("createEdge", "edges", node, es[i], Undefined,
                      Scalar(doc, es[i]), Undefined)]

\* The declared list edges that doc holds, stripped of '[]'
edgeLists(doc) ==
    LET ls == SelectSeq(cfg.edges, isList)
        ns == [i \in 1..Len(ls) |-> stripList(ls[i])]
    IN  SelectSeq(ns, LAMBDA e : e \in DOMAIN doc.l)

\* A fan-out that puts every element under the same discriminator
RECURSIVE edgeListWritesOneId(_, _, _, _)
edgeListWritesOneId(es, doc, node, c) ==
    IF es = <<>> THEN <<>>
    ELSE LET e  == Head(es)
             ts == doc.l[e]
         IN  [i \in 1..Len(ts) |->
                 StoreCall("createEdge", "edgeList", node,
                           e \o "#" \o cuid(c + 1), Undefined, ts[i], e)]
             \o edgeListWritesOneId(Tail(es), doc, node, c + Len(ts))

\* doc[edge].map(target => db.createEdge({type: `${edge}#${cuid()}`, ...}))
\* for every list edge es[i] of doc, c ids having been produced before
RECURSIVE edgeListWrites(_, _, _, _)
edgeListWrites(es, doc, node, c) ==
    IF es = <<>> THEN <<>>
    ELSE LET e  == Head(es)
             ts == doc.l[e]
         IN  [i \in 1..Len(ts) |->
                 StoreCall("createEdge", "edgeList", node,
                           e \o "#" \o cuid(c + i), Undefined, ts[i], e)]
             \o edgeListWrites(Tail(es), doc, node, c + Len(ts))

\* The three groups of writes of Promise.all([...]), in the order in which
\* the calls are made
writes(doc, node, c) ==
    propertyWrites(doc, node) \o edgeWrites(doc, node)
        \o edgeListWrites(edgeLists(doc), doc, node, c)

\* The Items the calls of one group resolved to, in the order of the calls
Items(calls, group, edge) ==
    LET cs == SelectSeq(calls,
                        LAMBDA c : c.group = group /\ c.edge = edge)
    IN  [i \in 1..Len(cs) |-> cs[i].item]

\* propertiesResults.reduce((acc, result) =>
\*     Object.assign(acc, {[result.Item.Type]: result.Item.Data}), {})
RECURSIVE propertiesDoc(_)
propertiesDoc(items) ==
    IF items = <<>> THEN NoKeys
    ELSE LET n == Len(items)
         IN  Assign(propertiesDoc(SubSeq(items, 1, n - 1)),
                    items[n].Type :> items[n].Data)

\* edgesResults.reduce((acc, result) => Object.assign(acc, {
\*     [result.Item.Type]: result.Item.Target,
\*     [`@${result.Item.Type}`]: result.Item.Data}), {})
RECURSIVE edgesDoc(_)
edgesDoc(items) ==
    IF items = <<>> THEN NoKeys
    ELSE LET n == Len(items)
         IN  Assign(edgesDoc(SubSeq(items, 1, n - 1)),
                    (items[n].Type :> items[n].Target)
                        @@ (("@" \o items[n].Type) :> items[n].Data))

\* results.reduce((acc, result) => { let id = result.Item.Type.split('#')[1];
\*     return Object.assign(acc, {[id]: result.Item.Target,
\*                                [`@${id}`]: result.Item.Data}) }, {})
RECURSIVE edgeListDoc(_)
edgeListDoc(items) ==
    IF items = <<>> THEN NoKeys
    ELSE LET n  == Len(items)
             sp == split(items[n].Type)
             id == IF Len(sp) > 1 THEN sp[2] ELSE Undefined
         IN  Assign(edgeListDoc(SubSeq(items, 1, n - 1)),
                    (id :> items[n].Target) @@ (("@" \o id) :> items[n].Data))

\* edgeListResults.map(results => ({[type]: results.reduce(...)}))
\*                .reduce((acc, results) => Object.assign(acc, results), {})
\* with type = results[0].Item.Type.split('#')[0]
RECURSIVE edgeListsDoc(_, _)
edgeListsDoc(calls, es) ==
    IF es = <<>> THEN NoKeys
    ELSE LET n     == Len(es)
             items == Items(calls, "edgeList", es[n])
         IN  Assign(edgeListsDoc(calls, SubSeq(es, 1, n - 1)),
                    split(items[1].Type)[1] :> edgeListDoc(items))

\* {id: node, [key]: data} of create without the key field
createBaseNoKey(node, data) == "id" :> node

\* {id: node, [key]: data}
createBase(node, data) == Assign("id" :> node, cfg.key :> data)

\* An {id: node} that also carries the number of the invocation
updateBaseStamped(node) == Assign("id" :> node, "rev" :> ToString(nInv))

\* {id: node}
updateBase(node) == "id" :> node

\* The then-callback of the outer Promise.all: Object.assign(base,
\* properties, edges, edge lists).  The reduce over an empty edge list reads
\* results[0].Item of undefined and throws a TypeError
assemble(base, calls, doc) ==
    LET es == edgeLists(doc) IN
    IF \E i \in 1..Len(es) : Items(calls, "edgeList", es[i]) = <<>>
    THEN [status |-> "rejected", error |-> "TypeError", result |-> NoDoc]
    ELSE LET f == Assign(Assign(base,
                                propertiesDoc(Items(calls, "properties",
                                                    Undefined))),
                         edgesDoc(Items(calls, "edges", Undefined)))
             c == edgeListsDoc(calls, es)
         IN  [ status |-> "resolved", error |-> "none",
               result |-> [f |-> [k \in DOMAIN f \ DOMAIN c |-> f[k]],
                           l |-> c] ]

----------------------------------------------------------------------------
(* Invocations of the schema-driven create and update *)

NoInv ==
    [ id |-> 0, kind |-> "none", doc |-> NoDoc, node |-> Undefined,
      pc |-> "none", error |-> "none", result |-> NoDoc, calls |-> <<>> ]

NoOutcome ==
    [status |-> "none", error |-> "none", result |-> NoDoc, calls |-> <<>>]

\* What the spy recorded of each call: the function and its arguments
Args(calls) ==
    [i \in 1..Len(calls) |->
        [ fn |-> calls[i].fn, tenant |-> calls[i].tenant,
          node |-> calls[i].node, type |-> calls[i].type,
          data |-> calls[i].data, target |-> calls[i].target,
          maxGSIK |-> calls[i].maxGSIK ]]

OutcomeOf(i) ==
    [ status |-> i.pc, error |-> i.error, result |-> i.result,
      calls |-> Args(i.calls) ]

\* The caller awaits the promise of one invocation before the next
CanCall ==
    /\ nInv < MaxInvs
    /\ inv.pc \in {"none", "threw", "returned", "resolved", "rejected"}

NewInv(kind, doc) ==
    [ id |-> nInv + 1, kind |-> kind, doc |-> doc, node |-> Undefined,
      pc |-> "start", error |-> "none", result |-> NoDoc, calls |-> <<>> ]

Invoke(i) ==
    /\ inv' = i
    /\ prev' = IF inv.kind = i.kind /\ inv.doc = i.doc
               THEN OutcomeOf(inv) ELSE NoOutcome
    /\ nInv' = nInv + 1

\* Writes that are issued whether createNode succeeded or not
afterCreateNodeAlways(ok, doc, node, c) == writes(doc, node, c)

\* db.createNode({...}).then(() => Promise.all([...])): the callback that
\* issues the writes runs only when createNode resolved
afterCreateNode(ok, doc, node, c) ==
    IF ok THEN writes(doc, node, c) ELSE <<>>

\* Every write of i has resolved: the then-callback settles the promise
settle(i, base) ==
    LET r == assemble(base, i.calls, i.doc)
    IN  [i EXCEPT !.pc = r.status, !.error = r.error, !.result = r.result]

baseOf(i) ==
    IF i.kind = "create" THEN createBase(i.node, Scalar(i.doc, cfg.key))
    ELSE updateBase(i.node)

\* A promise that settles with whatever has been answered so far
issuedNoBarrier(i) == settle(i, baseOf(i))

\* The writes of i have just been issued: with none outstanding the
\* promise settles before the store is heard again
issued(i) ==
    IF \E j \in 1..Len(i.calls) : i.calls[j].status = "pending"
    THEN [i EXCEPT !.pc = "writes"]
    ELSE settle(i, baseOf(i))

\* A rejection that first asks the store to delete the node
onWriteFailureRollback(i) ==
    [i EXCEPT !.pc = "rejected", !.error = "StoreError",
              !.calls = Append(@, StoreCall("deleteNode", "rollback", i.node,
                                            Undefined, Undefined, Undefined,
                                            Undefined))]

\* A write failed: Promise.all rejects with its error, and neither create
\* nor update has a catch-callback
onWriteFailure(i) == [i EXCEPT !.pc = "rejected", !.error = "StoreError"]

\* create(options)(doc), up to the call of createNode
SchemaCreate(doc) ==
    /\ CanCall
    /\ LET data == Scalar(doc, cfg.key)
           node == cuid(cuids + 1)
       IN  /\ cuids' = cuids + 1
           /\ IF data = Undefined
              THEN Invoke([NewInv("create", doc) EXCEPT
                              !.pc = "threw", !.error = "Data is undefined"])
              ELSE Invoke([NewInv("create", doc) EXCEPT
                              !.pc = "createNode", !.node = node,
                              !.calls = <<StoreCall("createNode", "node", node,
                                                    cfg.type, data, Undefined,
                                                    Undefined)>>])
    /\ UNCHANGED <<cfg, defaults, snapVars>>

\* The store answers createNode
SchemaCreateNodeReply(ok) ==
    /\ inv.kind = "create" /\ inv.pc = "createNode"
    /\ LET ws == afterCreateNode(ok, inv.doc, inv.node, cuids)
           i1 == [inv EXCEPT !.calls[1].status = IF ok THEN "ok" ELSE "failed",
                             !.calls = @ \o ws]
       IN  /\ cuids' = cuids + Cardinality({j \in 1..Len(ws) :
                                               ws[j].group = "edgeList"})
           /\ inv' = IF ok THEN issued(i1)
                     ELSE [i1 EXCEPT !.pc = "rejected", !.error = "StoreError"]
    /\ UNCHANGED <<cfg, defaults, prev, nInv, snapVars>>

\* update(options)(doc): the writes are issued in the call itself
SchemaUpdate(doc) ==
    /\ CanCall
    /\ IF "id" \notin DOMAIN doc.f \/ Scalar(doc, "id") = Undefined
       THEN /\ Invoke([NewInv("update", doc) EXCEPT
                          !.pc = "threw", !.error = "Id is undefined"])
            /\ UNCHANGED cuids
       ELSE LET node == doc.f["id"]
                ws   == writes(doc, node, cuids)
            IN  /\ cuids' = cuids + Cardinality({j \in 1..Len(ws) :
                                                    ws[j].group = "edgeList"})
                /\ Invoke(issued([NewInv("update", doc) EXCEPT
                                     !.node = node, !.calls = ws]))
    /\ UNCHANGED <<cfg, defaults, snapVars>>

\* The store answers write j.  The first failure rejects the promise of the
\* invocation; answers that arrive after it settled change nothing of it
SchemaWriteReply(j, ok) ==
    /\ j \in 1..Len(inv.calls)
    /\ inv.kind \in {"create", "update"}
    /\ inv.calls[j].fn # "createNode" /\ inv.calls[j].status = "pending"
    /\ LET c  == inv.calls[j]
           it == IF c.fn = "createProperty"
                 THEN [Type |-> c.type, Data |-> c.data, Target |-> Undefined]
                 ELSE [Type |-> c.type, Data |-> StoredData(c.target),
                       Target |-> c.target]
           i1 == [inv EXCEPT !.calls[j].status = IF ok THEN "ok" ELSE "failed",
                             !.calls[j].item = IF ok THEN it ELSE NoItem]
       IN  inv' = IF inv.pc # "writes" THEN i1
                  ELSE IF ~ok THEN onWriteFailure(i1)
                  ELSE issued(i1)
    /\ UNCHANGED <<cfg, defaults, prev, cuids, nInv, snapVars>>

\* destroy(options)(doc): db.deleteNode(doc.id)
SchemaDestroy(doc) ==
    /\ CanCall
    /\ LET node == Scalar(doc, "id")
       IN  IF node = Undefined
           THEN Invoke([NewInv("destroy", doc) EXCEPT
                           !.pc = "threw", !.error = "ID is undefined"])
           ELSE Invoke([NewInv("destroy", doc) EXCEPT
                           !.pc = "deleteNode", !.node = node,
                           !.calls = <<[StoreCall("deleteNode", "node", node,
                                                  Undefined, Undefined,
                                                  Undefined, Undefined)
                                          EXCEPT !.tenant = Undefined,
                                                 !.maxGSIK = NoGSIK]>>])
    /\ UNCHANGED <<cfg, defaults, cuids, snapVars>>

\* The store answers deleteNode: destroy settles as the call did
SchemaDestroyReply(ok) ==
    /\ inv.kind = "destroy" /\ inv.pc = "deleteNode"
    /\ inv' = IF ok
              THEN [inv EXCEPT !.pc = "resolved", !.calls[1].status = "ok"]
              ELSE [inv EXCEPT !.pc = "rejected", !.error = "StoreError",
                               !.calls[1].status = "failed"]
    /\ UNCHANGED <<cfg, defaults, prev, cuids, nInv, snapVars>>

----------------------------------------------------------------------------
(* Schema-driven get(options)(doc) *)

\* A requested list of names: absent, the keyword '$all', or an array
Absent == [tag |-> "absent", names |-> <<>>]

All == [tag |-> "all", names |-> <<>>]

Names(ns) == [tag |-> "list", names |-> ns]

\* A limit that is not a number
NoLimit == -1

\* typeof edgeList.limit === 'number' ? edgeList.limit : 10
DefaultLimit == 10

\* An element of edgesList
EdgeList(type, limit, beginsWith) ==
    [type |-> type, limit |-> limit, beginsWith |-> beginsWith]

\* A read of the store, as the spy on the driver sees it; found tells
\* whether the answer carries an Item, items are the Items of a query
ReadCall(fn, group, node, type, edge, limit, value) ==
    [limit |-> limit, sortKeyValue |-> value, found |-> FALSE, items |-> <<>>]
        @@ [StoreCall(fn, group, node, type, Undefined, Undefined, edge)
               EXCEPT !.tenant = Undefined, !.maxGSIK = NoGSIK]

\* array.indexOf(name) > -1
declared(array, name) == \E i \in 1..Len(array) : array[i] = name

\* The properties asked for: options.properties for '$all'
requestedProperties(doc) ==
    IF doc.properties.tag = "all" THEN cfg.properties
    ELSE doc.properties.names

\* The edges asked for: for '$all' the declared edges without '[]'
requestedEdges(doc) ==
    IF doc.edges.tag = "all"
    THEN SelectSeq(cfg.edges, LAMBDA e : ~isList(e))
    ELSE doc.edges.names

\* A filter that lets every requested name through
typeReadsUnfiltered(names, array, group, node) ==
    [i \in 1..Len(names) |->
        ReadCall("getNodeType", group, node, names[i], Undefined, NoLimit,
                 Undefined)]

\* names.filter(name => array.indexOf(name) > -1)
\*      .map(name => db.getNodeType({node, type: name}))
typeReads(names, array, group, node) ==
    LET ns == SelectSeq(names, LAMBDA n : declared(array, n))
    IN  [i \in 1..Len(ns) |->
            ReadCall("getNodeType", group, node, ns[i], Undefined, NoLimit,
                     Undefined)]

\* A query that passes the limit on as it was given
listReadAsGiven(node, el) ==
    ReadCall("getNodeTypes", "edgeList", node, Undefined, el.type,
             el.limit,
             IF el.beginsWith # Undefined
             THEN el.type \o "#" \o el.beginsWith ELSE el.type)

\* db.getNodeTypes({node, limit, sortKeyCondition, sortKeyValue}) of one
\* element of edgesList; beginsWith is a string or undefined
listRead(node, el) ==
    ReadCall("getNodeTypes", "edgeList", node, Undefined, el.type,
             IF el.limit # NoLimit THEN el.limit ELSE DefaultLimit,
             IF el.beginsWith # Undefined
             THEN el.type \o "#" \o el.beginsWith ELSE el.type)

\* edgesList.filter(edgeList =>
\*     options.edges.indexOf(`${edgeList.type}[]`) > -1).map(...)
listReads(doc, node) ==
    LET ls == SelectSeq(doc.edgesList,
                        LAMBDA el : declared(cfg.edges, el.type \o "[]"))
    IN  [i \in 1..Len(ls) |-> listRead(node, ls[i])]

\* The reads of Promise.all([...]), in the order in which they are made
reads(doc, node) ==
    <<ReadCall("getNode", "node", node, Undefined, Undefined, NoLimit,
               Undefined)>>
        \o typeReads(requestedProperties(doc), cfg.properties, "properties",
                     node)
        \o typeReads(requestedEdges(doc), cfg.edges, "edges", node)
        \o listReads(doc, node)

\* What the store holds of node n1: the node, its property, its edge and
\* two elements of its list edge
StoredItem(type) ==
    IF type = "Genre"
    THEN [Type |-> "Genre", Data |-> "Fantasy", Target |-> Undefined]
    ELSE IF type = "Author"
    THEN [Type |-> "Author", Data |-> StoredData("a1"), Target |-> "a1"]
    ELSE IF type = Undefined
    THEN [Type |-> cfg.type, Data |-> "Elantris", Target |-> Undefined]
    ELSE NoItem

StoredLikes ==
    << [Type |-> "Likes#k1", Data |-> StoredData("u1"), Target |-> "u1"],
       [Type |-> "Likes#k2", Data |-> StoredData("u2"), Target |-> "u2"] >>

\* The element of Likes2 that a Model declaring Likes2[] has written
StoredLikes2 ==
    << [Type |-> "Likes2#k3", Data |-> StoredData("u3"), Target |-> "u3"] >>

\* The rows of the list edges of node n1, in the order of their sort key
StoredRows ==
    StoredLikes
        \o (IF declared(cfg.edges, "Likes2[]") THEN StoredLikes2 ELSE <<>>)

\* begins_with(#Type, :Value) over the types the store holds: the type is
\* the value followed by any rest
beginsWith(type, value) ==
    \E rest \in {"", "#k1", "#k2", "#k3", "2#k3"} : type = value \o rest

\* The Items of a query: the first `limit` rows whose type begins with value
queryItems(limit, value) ==
    LET rows == SelectSeq(StoredRows, LAMBDA r : beginsWith(r.Type, value))
    IN  IF Len(rows) > limit THEN SubSeq(rows, 1, limit) ELSE rows

\* edgeListResults.reduce((acc1, result) => Object.assign(acc1,
\*     {[result.Type]: result.Items.reduce(...)}), {})
RECURSIVE listsDoc(_)
listsDoc(cs) ==
    IF cs = <<>> THEN NoKeys
    ELSE LET n == Len(cs)
         IN  Assign(listsDoc(SubSeq(cs, 1, n - 1)),
                    cs[n].edge :> edgeListDoc(cs[n].items))

\* The then-callback of the outer Promise.all of get.  An answer without
\* Item makes `result.Item.Data` or `result.Item.Type` throw a TypeError
assembleGet(node, calls) ==
    IF \E j \in 1..Len(calls) :
           calls[j].fn \in {"getNode", "getNodeType"} /\ ~calls[j].found
    THEN [status |-> "rejected", error |-> "TypeError", result |-> NoDoc]
    ELSE LET f == Assign(Assign(Assign("id" :> node,
                                       cfg.key :> calls[1].item.Data),
                                propertiesDoc(Items(calls, "properties",
                                                    Undefined))),
                         edgesDoc(Items(calls, "edges", Undefined)))
             c == listsDoc(SelectSeq(calls, LAMBDA x : x.group = "edgeList"))
         IN  [ status |-> "resolved", error |-> "none",
               result |-> [f |-> [k \in DOMAIN f \ DOMAIN c |-> f[k]],
                           l |-> c] ]

\* A read of i has resolved: Promise.all calls the then-callback once none
\* is outstanding
afterRead(i) ==
    IF \E j \in 1..Len(i.calls) : i.calls[j].status = "pending"
    THEN i
    ELSE LET r == assembleGet(i.node, i.calls)
         IN  [i EXCEPT !.pc = r.status, !.error = r.error,
                       !.result = r.result]

\* get(options)(doc): every read is issued in the call itself
SchemaGet(doc) ==
    /\ CanCall
    /\ Invoke([NewInv("get", doc) EXCEPT
                  !.pc = "reads", !.node = doc.id,
                  !.calls = reads(doc, doc.id)])
    /\ UNCHANGED <<cfg, defaults, cuids, snapVars>>

\* The store answers read j.  The first failure rejects the promise of get
SchemaReadReply(j, ok) ==
    /\ inv.kind = "get"
    /\ j \in 1..Len(inv.calls) /\ inv.calls[j].status = "pending"
    /\ LET c  == inv.calls[j]
           it == StoredItem(c.type)
           i1 == IF ~ok THEN [inv EXCEPT !.calls[j].status = "failed"]
                 ELSE IF c.fn = "getNodeTypes"
                 THEN [inv EXCEPT !.calls[j].status = "ok",
                                  !.calls[j].items =
                                      queryItems(c.limit, c.sortKeyValue)]
                 ELSE [inv EXCEPT !.calls[j].status = "ok",
                                  !.calls[j].found = it # NoItem,
                                  !.calls[j].item = it]
       IN  inv' = IF inv.pc # "reads" THEN i1
                  ELSE IF ~ok THEN onWriteFailure(i1)
                  ELSE afterRead(i1)
    /\ UNCHANGED <<cfg, defaults, prev, cuids, nInv, snapVars>>

----------------------------------------------------------------------------
(* Model(options) and Model.config(options) of the schema-driven engine *)

optionKeys ==
    {"db", "maxGSIK", "tenant", "documentClient", "table", "key",
     "nodeGenerator"}

\* options[k]: undefined for a key the object does not hold
Read(o, k) ==
    IF k \in DOMAIN o THEN o[k]
    ELSE IF k = "maxGSIK" THEN NoGSIK ELSE Undefined

\* lodash pick(object, keys): the keys of the object among keys, a key
\* whose value is undefined included
pick(o, keys) == [k \in DOMAIN o \cap keys |-> o[k]]

\* An argument of Model.config: an object, or something else
NotObject == [object |-> FALSE, o |-> NoKeys]

Obj(o) == [object |-> TRUE, o |-> o]

\* A config that stores every key of its argument
configAll(defs, arg) ==
    IF arg.object THEN Assign(defs, arg.o) ELSE defs

\* if (isObject(options))
\*     defaults = Object.assign({}, defaults, pick(options, optionKeys))
config(defs, arg) ==
    IF arg.object THEN Assign(defs, pick(arg.o, optionKeys)) ELSE defs

\* Model.config(options): returns Object.assign({}, defaults)
ModelConfig(arg) ==
    /\ CanCall
    /\ defaults' = config(defaults, arg)
    /\ Invoke([NewInv("config", arg) EXCEPT
                  !.pc = "returned",
                  !.result = [f |-> config(defaults, arg), l |-> NoKeys]])
    /\ UNCHANGED <<cfg, cuids, snapVars>>

\* options = Object.assign({}, defaults, options)
modelOptions(defs, options) == Assign(defs, options)

\* The checks of Model(options); process.env.TABLE_NAME is not set
schemaModelError(o) ==
    IF Read(o, "table") = Undefined THEN "Table is undefined"
    ELSE IF Read(o, "documentClient") = Undefined
    THEN "DynamoDB Document Client is undefined"
    ELSE IF Read(o, "maxGSIK") = NoGSIK THEN "Max GSIK is undefined"
    ELSE IF Read(o, "key") = Undefined THEN "Key is undefined"
    ELSE "none"

\* The handle require('dynamodb-graph')({db: documentClient, table}) returns
driver(documentClient, table) ==
    "driver(" \o documentClient \o "," \o table \o ")"

\* The options create, update, destroy and get are built with: the db and
\* the nodeGenerator are set when they are not given; tenant reads as
\* undefined when no object defines it
built(o) ==
    ("db" :> (IF Read(o, "db") # Undefined THEN o["db"]
              ELSE driver(o["documentClient"], o["table"])))
        @@ ("nodeGenerator" :> (IF Read(o, "nodeGenerator") = "byName"
                                THEN "byName" ELSE "cuid"))
        @@ o @@ ("tenant" :> Undefined)

\* Model(options): throws, or builds the four functions from the options
SchemaModel(options) ==
    /\ CanCall
    /\ LET o   == modelOptions(defaults, options)
           err == schemaModelError(o)
       IN  IF err # "none"
           THEN /\ Invoke([NewInv("Model", options) EXCEPT
                              !.pc = "threw", !.error = err])
                /\ UNCHANGED cfg
           ELSE /\ Invoke([NewInv("Model", options) EXCEPT !.pc = "returned"])
                /\ cfg' = built(o)
    /\ UNCHANGED <<defaults, cuids, snapVars>>

----------------------------------------------------------------------------
(* The specification *)

\* No Model of the Snapshot factory is built
NoSnapshots ==
    /\ snaps = <<>>
    /\ arrays = <<>>
    /\ ops = {}
    /\ nOps = 0
    /\ last = [id |-> 0, kind |-> "none"]

\* create(options) and update(options) are built and not yet invoked
SchemaBuilt(options) ==
    /\ cfg = options
    /\ defaults = NoKeys
    /\ inv = NoInv
    /\ prev = NoOutcome
    /\ cuids = 0
    /\ nInv = 0

\* The options of the Model the caller builds: blank or bound to node n1,
\* with or without a partition count, and either bare or carrying data,
\* properties and edges
RootOptions ==
    { [ type |-> "Book", tenant |-> "t1", log |-> l, node |-> n,
        data |-> IF loaded THEN "d0" ELSE Undefined,
        properties |-> IF loaded THEN GivenProps ELSE <<>>,
        edges |-> IF loaded THEN GivenEdges ELSE <<>>,
        maxGSIK |-> g, history |-> <<>> ] :
      l \in BOOLEAN, n \in {Undefined, "n1"}, g \in {NoGSIK, 0},
      loaded \in BOOLEAN }

\* One Model built by the caller with Model(options)
Init ==
    \E r \in RootOptions :
        LET ap == Alloc(<<>>, r.properties)
            ae == Alloc(ap.a, r.edges)
        IN /\ snaps = <<Model([r EXCEPT !.properties = ap.r,
                                        !.edges = ae.r])>>
           /\ arrays = ae.a
           /\ SchemaBuilt(BookOptions("t1", <<>>))
           /\ ops = {}
           /\ nOps = 0
           /\ last = [id |-> 0, kind |-> "none", snap |-> 0,
                      status |-> "none", error |-> "none", result |-> 0,
                      hist |-> <<>>, issued |-> 0,
                      pre |-> View(<<Model([r EXCEPT !.properties = ap.r,
                                                     !.edges = ae.r])>>,
                                   ae.a, 1),
                      newNode |-> Undefined, type |-> Undefined]

Next ==
    \/ \E s \in Snaps : CollectionCall(s)
           /\ UNCHANGED schemaVars
    \/ \E o \in ops, ok \in BOOLEAN, items \in CollectionReplies :
           CollectionReply(o, ok, items)
           /\ UNCHANGED schemaVars
    \/ \E s \in Snaps, n \in {"n2", Undefined} : GetCall(s, n)
           /\ UNCHANGED schemaVars
    \/ \E o \in ops, c \in {"getNodeData", "getNodeProperties",
                            "getNodeEdges"}, ok \in BOOLEAN :
           \E items \in GetReplies(c) : GetReply(o, c, ok, items)
           /\ UNCHANGED schemaVars
    \/ \E s \in Snaps, t \in {"A", Undefined},
          d \in {"v", Undefined} : SetCall(s, t, d)
           /\ UNCHANGED schemaVars
    \/ \E s \in Snaps, t \in {"A", Undefined},
          tg \in {"n3", Undefined}, tm \in {0} \cup Snaps :
           ConnectCall(s, t, tg, tm)
           /\ UNCHANGED schemaVars
    \/ \E o \in ops, ok \in BOOLEAN, items \in LookupReplies :
           LookupReply(o, ok, items)
           /\ UNCHANGED schemaVars
    \/ \E o \in ops : IssueWrite(o)
           /\ UNCHANGED schemaVars
    \/ \E o \in ops, ok \in BOOLEAN : WriteReply(o, ok)
           /\ UNCHANGED schemaVars
    \/ \E s \in Snaps, t \in Types \cup {Undefined} : RemoveCall(s, t)
           /\ UNCHANGED schemaVars
    \/ \E o \in ops, ok \in BOOLEAN : RemoveReply(o, ok)
           /\ UNCHANGED schemaVars
    \/ \E s \in Snaps, n \in {"n2", Undefined} : DestroyCall(s, n)
           /\ UNCHANGED schemaVars
    \/ \E o \in ops, ok \in BOOLEAN : DestroyReply(o, ok)
           /\ UNCHANGED schemaVars
    \/ \E s \in Snaps, d \in {"d1", Undefined}, ps \in ConfigProps,
          es \in ConfigEdges : CreateCall(s, d, ps, es)
           /\ UNCHANGED schemaVars
    \/ \E o \in ops, ok \in BOOLEAN, item \in {"n4", Undefined} :
           CreateNodeReply(o, ok, item)
           /\ UNCHANGED schemaVars
    \/ \E o \in ops, ok \in BOOLEAN : CreatePropertiesReply(o, ok)
           /\ UNCHANGED schemaVars
    \/ \E o \in ops, ok \in BOOLEAN, d \in {"td", Undefined} :
           \E i \in o.pendingEdges : CreateEdgeReply(o, i, ok, d)
           /\ UNCHANGED schemaVars

Spec == Init /\ [][Next]_vars

----------------------------------------------------------------------------
(* The specification of create alone, with configs of up to two edges: the
   createEdge calls of one create are answered in any order *)

FanOutInit == Init

FanOutNext ==
    \/ \E s \in Snaps, d \in {"d1", Undefined}, ps \in ConfigProps,
          es \in ConfigEdges \cup {TwoEdges} : CreateCall(s, d, ps, es)
           /\ UNCHANGED schemaVars
    \/ \E o \in ops, ok \in BOOLEAN, item \in {"n4", Undefined} :
           CreateNodeReply(o, ok, item)
           /\ UNCHANGED schemaVars
    \/ \E o \in ops, ok \in BOOLEAN : CreatePropertiesReply(o, ok)
           /\ UNCHANGED schemaVars
    \/ \E o \in ops, ok \in BOOLEAN, d \in {"td", Undefined} :
           \E i \in o.pendingEdges : CreateEdgeReply(o, i, ok, d)
           /\ UNCHANGED schemaVars

FanOutSpec == FanOutInit /\ [][FanOutNext]_vars

----------------------------------------------------------------------------
(* The specification of a caller that does not await: a second operation is
   invoked while the first is outstanding *)

OverlapInit == Init

OverlapNext ==
    \/ /\ nOps < MaxOps
       /\ \E s \in Snaps, n \in {"n2", Undefined} : get(s, n)
       /\ UNCHANGED schemaVars
    \/ \E o \in ops, c \in {"getNodeData", "getNodeProperties",
                            "getNodeEdges"}, ok \in BOOLEAN :
           \E items \in GetReplies(c) : GetReply(o, c, ok, items)
           /\ UNCHANGED schemaVars
    \/ /\ nOps < MaxOps
       /\ \E s \in Snaps, t \in {"A"}, d \in {"v"} : set(s, t, d)
       /\ UNCHANGED schemaVars
    \/ /\ nOps < MaxOps
       /\ \E s \in Snaps, t \in {"A"}, tg \in {"n3"} : connect(s, t, tg, 0)
       /\ UNCHANGED schemaVars
    \/ \E o \in ops, ok \in BOOLEAN, items \in LookupReplies :
           LookupReply(o, ok, items)
           /\ UNCHANGED schemaVars
    \/ \E o \in ops : IssueWrite(o)
           /\ UNCHANGED schemaVars
    \/ \E o \in ops, ok \in BOOLEAN : WriteReply(o, ok)
           /\ UNCHANGED schemaVars
    \/ /\ nOps < MaxOps
       /\ \E s \in Snaps, n \in {"n2", Undefined} : destroy(s, n)
       /\ UNCHANGED schemaVars
    \/ \E o \in ops, ok \in BOOLEAN : DestroyReply(o, ok)
           /\ UNCHANGED schemaVars

OverlapSpec == OverlapInit /\ [][OverlapNext]_vars

----------------------------------------------------------------------------
(* The specification of the schema-driven create and update *)

\* Key k absent, or present with one of the values vs
Field(k, vs) == {NoKeys} \cup {k :> v : v \in vs}

\* The docs handed to create: with or without the key field, the property
\* absent, undefined or defined, with or without the edge, and the list
\* edge absent, empty or with three targets, two of them the same node
CreateDocs ==
    { [f |-> n @@ g @@ a, l |-> ls] :
        n \in Field("Name", {"Elantris"}),
        g \in Field("Genre", {Undefined, "Fantasy"}),
        a \in Field("Author", {"a1"}),
        ls \in Field("Likes", {<<>>, <<"u1", "u1", "u2">>}) }

\* The docs handed to update: the same, with or without an id
UpdateDocs ==
    { [d EXCEPT !.f = i @@ @] : d \in CreateDocs, i \in Field("id", {"n1"}) }

\* The docs handed to destroy: without id, with an undefined id, with an id
DestroyDocs == { [f |-> i, l |-> NoKeys] : i \in Field("id", {Undefined, "n1"}) }

\* The docs handed to get: properties and edges absent, '$all', or a list
\* with declared and undeclared names; edgesList absent, or with the list
\* edge and an undeclared one, the limit and the prefix given or not
GetDocs ==
    { [id |-> "n1", properties |-> p, edges |-> e, edgesList |-> <<>>] :
        p \in {Absent, All, Names(<<"Genre", "Bogus">>)},
        e \in {Absent, All, Names(<<"Author", "Likes[]", "Bogus">>)} }
    \cup
    { [id |-> "n1", properties |-> p, edges |-> Absent, edgesList |-> l] :
        p \in {Absent, All},
        l \in { <<EdgeList("Likes", NoLimit, Undefined),
                  EdgeList("Bogus", 1, Undefined)>>,
                <<EdgeList("Likes", 1, "k2")>> } }

SchemaInit == NoSnapshots /\ \E options \in SchemaOptions : SchemaBuilt(options)

SchemaNext ==
    \/ \E doc \in CreateDocs : SchemaCreate(doc)
    \/ \E ok \in BOOLEAN : SchemaCreateNodeReply(ok)
    \/ \E doc \in UpdateDocs : SchemaUpdate(doc)
    \/ \E j \in 1..Len(inv.calls), ok \in BOOLEAN : SchemaWriteReply(j, ok)
    \/ \E doc \in DestroyDocs : SchemaDestroy(doc)
    \/ \E ok \in BOOLEAN : SchemaDestroyReply(ok)
    \/ \E doc \in GetDocs : SchemaGet(doc)
    \/ \E j \in 1..Len(inv.calls), ok \in BOOLEAN : SchemaReadReply(j, ok)

SchemaSpec == SchemaInit /\ [][SchemaNext]_vars

----------------------------------------------------------------------------
(* The specification of Model and Model.config: defaults are configured,
   Models are built, and the create and update of the latest Model are
   invoked *)

\* The options of the Book example without what the defaults provide
BookBase ==
    [type |-> "Book", key |-> "Name", properties |-> <<"Genre">>,
     edges |-> <<>>]

\* The defaults after Model.config({table, documentClient, maxGSIK, tenant})
BookDefaults ==
    [table |-> "T", documentClient |-> "dc", maxGSIK |-> 4, tenant |-> "t1"]

\* The arguments of Model.config: no object, a whitelisted key, a
\* whitelisted key with a key that is not, and keys reset to undefined
ConfigArgs ==
    { NotObject,
      Obj("table" :> "T2"),
      Obj(("tenant" :> "t2") @@ ("foo" :> "bar")),
      Obj(("maxGSIK" :> 9) @@ ("db" :> "db2")),
      Obj("maxGSIK" :> NoGSIK),
      Obj("table" :> Undefined) }

\* The options of a Model: bare, or overriding a default
ModelOptions ==
    { BookBase,
      ("tenant" :> "t3") @@ BookBase,
      ("maxGSIK" :> 7) @@ ("table" :> "T3") @@ BookBase }

ConfigInit ==
    /\ NoSnapshots
    /\ defaults = BookDefaults
    /\ cfg = built(modelOptions(BookDefaults, BookBase))
    /\ inv = NoInv
    /\ prev = NoOutcome
    /\ cuids = 0
    /\ nInv = 0

ConfigNext ==
    \/ \E arg \in ConfigArgs : ModelConfig(arg)
    \/ \E options \in ModelOptions : SchemaModel(options)
    \/ SchemaCreate([f |-> ("Name" :> "Elantris") @@ ("Genre" :> "Fantasy"),
                     l |-> NoKeys])
    \/ \E ok \in BOOLEAN : SchemaCreateNodeReply(ok)
    \/ SchemaUpdate([f |-> ("id" :> "n1") @@ ("Genre" :> "Fantasy"),
                     l |-> NoKeys])
    \/ \E j \in 1..Len(inv.calls), ok \in BOOLEAN : SchemaWriteReply(j, ok)

ConfigSpec == ConfigInit /\ [][ConfigNext]_vars

----------------------------------------------------------------------------
(* The specification of the calls alone: what every entry point does before
   the store has answered anything *)

\* The caller makes MaxOps calls in all
Budget == nOps + nInv < MaxOps

\* Docs with and without the field the entry point checks
KeyDocs == { [f |-> n, l |-> NoKeys] : n \in Field("Name", {"Elantris"}) }

IdDocs == { [f |-> i, l |-> NoKeys] : i \in Field("id", {"n1"}) }

CallsInit == Init

CallsNext ==
    \/ /\ Budget
       /\ \E t \in {"Book", Undefined}, g \in MaxGSIKOptions,
             tb \in {"T", Undefined} : ModelCall(t, g, tb)
       /\ UNCHANGED schemaVars
    \/ /\ Budget
       /\ \E s \in Snaps, t \in {"A", Undefined}, d \in {"v", Undefined} :
              SetCall(s, t, d)
       /\ UNCHANGED schemaVars
    \/ /\ Budget
       /\ \E s \in Snaps, t \in {"A", Undefined}, tg \in {"n3", Undefined} :
              ConnectCall(s, t, tg, 0)
       /\ UNCHANGED schemaVars
    \/ /\ Budget
       /\ \E s \in Snaps, t \in {"A", Undefined} : RemoveCall(s, t)
       /\ UNCHANGED schemaVars
    \/ /\ Budget
       /\ \E s \in Snaps, d \in {"d1", Undefined} :
              CreateCall(s, d, <<>>, <<>>)
       /\ UNCHANGED schemaVars
    \/ Budget /\ \E doc \in KeyDocs : SchemaCreate(doc)
    \/ Budget /\ \E doc \in IdDocs : SchemaUpdate(doc)
    \/ Budget /\ \E doc \in DestroyDocs : SchemaDestroy(doc)

CallsSpec == CallsInit /\ [][CallsNext]_vars

----------------------------------------------------------------------------
(* Properties *)

\* The operation recorded in `last` is the latest one invoked: nothing has
\* been called on any Model since it threw or settled
Fresh == last.id = nOps

HasSettled == last.status \in {"resolved", "rejected"}

\* The latest operation resolved to a Model (collection resolves to a list)
Resolved == last.status = "resolved" /\ Fresh /\ last.kind # "collection"

\* The overrides the methods hand to newModel: a history alone (set,
\* remove), with edges (connect), with data and lists (get), and with a
\* node, defined (create, collection) or not (emptyModel)
Overrides ==
    LET H == <<Entry(0, "x")>>
        R == IF Len(arrays) > 0 THEN 1 ELSE 0
    IN  { [history |-> H],
          [edges |-> R, history |-> H],
          [data |-> "d1", properties |-> R, edges |-> R, history |-> H],
          [node |-> "n2", data |-> "d1", properties |-> R, edges |-> R,
           history |-> H],
          [node |-> Undefined, data |-> Undefined, properties |-> 0,
           edges |-> 0, history |-> H] }

\* C1: deriving a new Model from Model s with any override adds exactly one
\* Model and leaves every closure variable of s and of every other Model,
\* hence every field they show (newModel is handed no array), unchanged
C1_EvolveKeepsReceiver ==
    \A s \in Snaps : \A ov \in Overrides :
        LET h2 == newModel(snaps, s, ov)
        IN /\ Len(h2) = Len(snaps) + 1
           /\ \A i \in Snaps : h2[i] = snaps[i]
           /\ View(h2, arrays, s) = View(snaps, arrays, s)

\* A Model derived by an operation whose node differs from its receiver's
C1_Witness ==
    /\ Resolved
    /\ last.kind = "create"
    /\ View(snaps, arrays, last.result).node # View(snaps, arrays, last.snap).node
    /\ View(snaps, arrays, last.snap) = last.pre

\* C2: once an operation has settled, its receiver reads exactly as it did
\* before the call
C2_ReceiverUnchanged ==
    (HasSettled /\ Fresh) => View(snaps, arrays, last.snap) = last.pre

\* C3: create on a bound Model throws 'Node already exists' and issues no
\* store call
C3_CreateOnBound ==
    (last.kind = "create" /\ last.pre.node # Undefined) =>
        /\ last.status = "threw"
        /\ last.error = "Node already exists"
        /\ last.issued = 0
        /\ Fresh => ops = {}

C3_Witness ==
    /\ last.kind = "create" /\ last.pre.node # Undefined
    /\ last.status = "threw" /\ Fresh

\* The invocations that need a bound receiver: set, connect, remove, and
\* get / destroy without an id
BoundOnly ==
    \/ last.kind \in {"set", "connect", "remove"}
    \/ last.kind \in {"get", "destroy"} /\ last.newNode = Undefined

\* C4: a bound-only operation on an empty Model throws 'Node is undefined'
\* and issues no store call
C4_BoundOnlyOnEmpty ==
    (BoundOnly /\ last.pre.node = Undefined) =>
        /\ last.status = "threw"
        /\ last.error = "Node is undefined"
        /\ last.issued = 0
        /\ Fresh => ops = {}

C4_Witness ==
    /\ last.kind = "remove" /\ last.pre.node = Undefined
    /\ last.status = "threw" /\ Fresh

\* C5: get(id) on an empty Model resolves to a Model bound to id that
\* carries the data, properties and edges read
C5_GetBinds ==
    (Resolved /\ last.kind = "get" /\ last.newNode # Undefined
              /\ last.pre.node = Undefined) =>
        /\ View(snaps, arrays, last.result).node = last.newNode
        /\ View(snaps, arrays, last.result).data = "d1"
        /\ View(snaps, arrays, last.result).properties = StoredProps
        /\ View(snaps, arrays, last.result).edges = StoredEdges

\* C6: a destroy that succeeds returns an empty Model of the same type and
\* tenant, whatever the receiver held
C6_DestroyEmpties ==
    (Resolved /\ last.kind = "destroy") =>
        LET r == View(snaps, arrays, last.result)
        IN /\ r.node = Undefined
           /\ r.data = Undefined
           /\ r.properties = <<>>
           /\ r.edges = <<>>
           /\ r.type = last.pre.type
           /\ r.tenant = last.pre.tenant

C6_Witness ==
    /\ Resolved /\ last.kind = "destroy"
    /\ last.pre.data # Undefined
    /\ last.pre.properties # <<>>
    /\ last.pre.edges # <<>>
    /\ View(snaps, arrays, last.result).node = Undefined

\* C7: the history of the result is the history of the receiver followed
\* by the entries recorded during the operation
C7_HistoryAccumulates ==
    Resolved =>
        View(snaps, arrays, last.result).history = last.pre.history \o last.hist

\* C8: a successful operation contributes exactly one history entry per
\* store call it issued
C8_OneEntryPerCall ==
    Resolved =>
        /\ Len(last.hist) = last.issued
        /\ last.kind = "get" => Len(last.hist) = 3

Without(seq, type) == SelectSeq(seq, LAMBDA x : x.Type # type)

\* C10: remove(type) issues one delete and resolves to a Model whose lists
\* are the receiver's without the entry of that type, the others in order
C10_RemoveDropsMatch ==
    (Resolved /\ last.kind = "remove") =>
        /\ last.issued = 1
        /\ View(snaps, arrays, last.result).properties
               = Without(last.pre.properties, last.type)
        /\ View(snaps, arrays, last.result).edges
               = Without(last.pre.edges, last.type)

\* C11: partition resolution is cached along a chain.  A Model whose public
\* history holds a getNode entry is the result of a set or connect that
\* looked the partition count up; a set or connect invoked on it performs
\* no lookup of its own
C11_LookupOnce ==
    (Resolved /\ last.kind \in {"set", "connect"}
       /\ \E i \in 1..Len(last.pre.history) :
              last.pre.history[i].what = "getNode")
    => \A i \in 1..Len(last.hist) : last.hist[i].what # "getNode"

\* C12: when the lookup of a set or connect is answered by a node row that
\* carries no partition count, the call rejects with 'Max GSIK is undefined'
\* and the lookup stays the only store call it issued
C12_NoCountRejects ==
    [][\A o \in ops :
          (o.pc = "lookup" /\ LookupReply(o, TRUE, <<[MaxGSIK |-> NoGSIK]>>))
          => /\ last'.status = "rejected"
             /\ last'.error = "Max GSIK is undefined"
             /\ last'.issued = 1]_vars

\* C23: a get has issued its three reads, and no other call, in every state
\* in which it is in flight, the one before the store answers any included;
\* it
\* resolves to a Model whose data, properties and edges are those the store
\* returned
C23_GetReadsAll ==
    /\ \A o \in ops :
           o.kind = "get" =>
               /\ o.issued = 3
               /\ o.pending \subseteq {"getNodeData", "getNodeProperties",
                                        "getNodeEdges"}
               /\ o.hist = <<>>
    /\ (Resolved /\ last.kind = "get") =>
           /\ last.issued = 3
           /\ View(snaps, arrays, last.result).data = "d1"
           /\ View(snaps, arrays, last.result).properties = StoredProps
           /\ View(snaps, arrays, last.result).edges = StoredEdges

C23_Witness ==
    /\ Resolved /\ last.kind = "get"
    /\ View(snaps, arrays, last.result).edges = StoredEdges
    /\ last.pre.edges = <<>>

\* C27: a set or connect on a Model that knows its partition count issues
\* the write alone and records its response; on a Model that does not, it
\* issues one getNode and then the write, which carries the count that the
\* lookup returned, and the history of the result is the response of the
\* lookup followed by the response of the write
C27_LookupThenWrite ==
    /\ \A o \in ops :
           (o.kind \in {"set", "connect"} /\ o.pc = "write") =>
               IF o.pre.maxGSIK # NoGSIK
               THEN o.issued = 1 /\ o.maxGSIK = o.pre.maxGSIK /\ o.hist = <<>>
               ELSE /\ o.issued = 2 /\ o.maxGSIK = 4
                    /\ o.hist = <<Entry(o.id, "getNode")>>
    /\ (Resolved /\ last.kind \in {"set", "connect"}) =>
           LET w == Entry(last.id, IF last.kind = "set" THEN "createProperty"
                                   ELSE "createEdge")
               h == IF last.pre.maxGSIK # NoGSIK THEN <<w>>
                    ELSE <<Entry(last.id, "getNode"), w>>
           IN  /\ last.issued = Len(h)
               /\ last.hist = h
               /\ View(snaps, arrays, last.result).history = h

C27_Witness ==
    /\ Resolved /\ last.kind = "connect" /\ last.pre.maxGSIK = NoGSIK
    /\ Len(View(snaps, arrays, last.result).history) = 2

\* C28: an operation that a failing store call rejects carries the store's
\* error, and its history holds the responses received before the failure
\* followed by that error, once
C28_ErrorRecordedOnce ==
    (Fresh /\ last.status = "rejected" /\ last.error = "StoreError") =>
        /\ last.hist # <<>>
        /\ last.hist[Len(last.hist)].what = "StoreError"
        /\ \A i \in 1..(Len(last.hist) - 1) : last.hist[i].what # "StoreError"

----------------------------------------------------------------------------
(* Properties of the schema-driven create and update *)

\* The property and edge writes of the latest invocation have been issued
WritesIssued ==
    /\ inv.kind \in {"create", "update"}
    /\ inv.pc \in {"writes", "resolved", "rejected"}
    /\ inv.kind = "create" => inv.calls[1].status = "ok"

Calls == 1..Len(inv.calls)

Writes == {j \in Calls : inv.calls[j].fn # "createNode"}

\* The declared edges of cardinality one, and the names of the list edges
OneEdges == {cfg.edges[i] : i \in {k \in 1..Len(cfg.edges) : ~isList(cfg.edges[k])}}
ManyEdges == {stripList(cfg.edges[i]) :
                 i \in {k \in 1..Len(cfg.edges) : isList(cfg.edges[k])}}
Properties == {cfg.properties[i] : i \in 1..Len(cfg.properties)}

\* The createEdge calls made for elements of the list edge e
ListWrites(e) ==
    {j \in Writes : /\ inv.calls[j].fn = "createEdge"
                    /\ Len(split(inv.calls[j].type)) = 2
                    /\ split(inv.calls[j].type)[1] = e}

Discriminator(j) == split(inv.calls[j].type)[2]

\* C13: a create that passed validation has issued exactly one createNode,
\* its first store call, carrying doc[key] as data; property and edge
\* writes exist only once createNode has resolved, and none exists when
\* createNode failed
C13_CreateNodeFirst ==
    (inv.kind = "create" /\ inv.pc # "threw") =>
        /\ {j \in Calls : inv.calls[j].fn = "createNode"} = {1}
        /\ inv.calls[1].data = inv.doc.f[cfg.key]
        /\ inv.calls[1].type = cfg.type
        /\ Writes # {} => inv.calls[1].status = "ok"
        /\ inv.calls[1].status = "failed" => inv.pc = "rejected" /\ Writes = {}

C13_Witness ==
    /\ inv.kind = "create" /\ inv.pc = "resolved"
    /\ inv.calls[1].status = "ok" /\ Cardinality(Writes) = 5

\* C14: once the writes of a create or update are issued, there is exactly
\* one createProperty per declared property that doc defines, exactly one
\* createEdge per declared edge of cardinality one that doc defines, and
\* for every declared list edge of doc one createEdge per element, in the
\* order of the list; there is no other write
C14_OneWritePerField ==
    WritesIssued =>
        /\ \A p \in Properties :
               Cardinality({j \in Writes :
                               /\ inv.calls[j].fn = "createProperty"
                               /\ inv.calls[j].type = p
                               /\ inv.calls[j].data = Scalar(inv.doc, p)})
                   = IF Scalar(inv.doc, p) # Undefined THEN 1 ELSE 0
        /\ \A e \in OneEdges :
               Cardinality({j \in Writes :
                               /\ inv.calls[j].fn = "createEdge"
                               /\ inv.calls[j].type = e
                               /\ inv.calls[j].target = Scalar(inv.doc, e)})
                   = IF Scalar(inv.doc, e) # Undefined THEN 1 ELSE 0
        /\ \A e \in ManyEdges :
               LET ts == IF e \in DOMAIN inv.doc.l THEN inv.doc.l[e] ELSE <<>>
                   cs == SelectSeq(inv.calls,
                                   LAMBDA c : /\ c.fn = "createEdge"
                                              /\ Len(split(c.type)) = 2
                                              /\ split(c.type)[1] = e)
               IN  [i \in 1..Len(cs) |-> cs[i].target] = ts
        /\ \A j \in Writes :
               \/ /\ inv.calls[j].fn = "createProperty"
                  /\ inv.calls[j].type \in Properties
               \/ /\ inv.calls[j].fn = "createEdge"
                  /\ inv.calls[j].type \in OneEdges
               \/ \E e \in ManyEdges : j \in ListWrites(e)

C14_Witness ==
    /\ inv.kind = "update" /\ inv.pc = "resolved"
    /\ Cardinality(Writes) = 5

\* C15: an update whose doc holds three targets under the declared list
\* edge Likes issues exactly three createEdge calls for it, of types
\* 'Likes#<discriminator>' with three different discriminators, and
\* resolves to a Likes collection of exactly three entries, each mapping a
\* discriminator to its target and '@'discriminator to the target's data
C15_ListFanOut ==
    (/\ inv.kind = "update" /\ WritesIssued
     /\ "Likes" \in ManyEdges /\ "Likes" \in DOMAIN inv.doc.l
     /\ Len(inv.doc.l["Likes"]) = 3) =>
        LET js == ListWrites("Likes")
            ds == {Discriminator(j) : j \in js}
        IN  /\ Cardinality(js) = 3
            /\ Cardinality(ds) = 3
            /\ DOMAIN inv.doc.f = {"id"} =>
                   Cardinality({j \in Calls :
                                   inv.calls[j].fn = "createEdge"}) = 3
            /\ inv.pc = "resolved" =>
                   /\ "Likes" \in DOMAIN inv.result.l
                   /\ DOMAIN inv.result.l["Likes"]
                          = ds \cup {"@" \o d : d \in ds}
                   /\ \A j \in js :
                          /\ inv.result.l["Likes"][Discriminator(j)]
                                 = inv.calls[j].target
                          /\ inv.result.l["Likes"]["@" \o Discriminator(j)]
                                 = StoredData(inv.calls[j].target)

C15_Witness ==
    /\ inv.kind = "update" /\ inv.pc = "resolved"
    /\ DOMAIN inv.doc.f = {"id"} /\ "Likes" \in DOMAIN inv.doc.l
    /\ Cardinality(ListWrites("Likes")) = 3

\* C16: an update issues createProperty and createEdge calls only, every
\* one of them on node doc.id, and none for a declared property or edge
\* that doc lacks or holds as undefined
C16_PartialUpdate ==
    (inv.kind = "update" /\ inv.pc # "threw") =>
        /\ \A j \in Calls :
               /\ inv.calls[j].fn \in {"createProperty", "createEdge"}
               /\ inv.calls[j].node = inv.doc.f["id"]
        /\ \A p \in Properties :
               Scalar(inv.doc, p) = Undefined =>
                   \A j \in Calls : inv.calls[j].type # p
        /\ \A e \in OneEdges :
               Scalar(inv.doc, e) = Undefined =>
                   \A j \in Calls : inv.calls[j].type # e
        /\ \A e \in ManyEdges :
               e \notin DOMAIN inv.doc.l => ListWrites(e) = {}

C16_Witness ==
    /\ inv.kind = "update" /\ inv.pc = "resolved"
    /\ "Genre" \in DOMAIN inv.doc.f /\ inv.doc.f["Genre"] = Undefined
    /\ "Author" \notin DOMAIN inv.doc.f /\ "Author" \in OneEdges
    /\ Cardinality(Writes) = 3

\* doc is {id, Field: v} with Field a declared property or a declared edge
\* of cardinality one and v defined
OneField(doc) ==
    /\ doc.l = NoKeys
    /\ \E k \in Properties \cup OneEdges :
           DOMAIN doc.f = {"id", k} /\ doc.f[k] # Undefined

\* C17: when update({id, Field: v}) is invoked a second time with the same
\* doc and both invocations resolve, each has issued one store write, the
\* two writes have the same arguments and the two resolved documents are
\* equal
C17_IdempotentUpsert ==
    (/\ inv.kind = "update" /\ inv.pc = "resolved"
     /\ prev.status = "resolved" /\ OneField(inv.doc)) =>
        /\ Len(inv.calls) = 1 /\ Len(prev.calls) = 1
        /\ Args(inv.calls) = prev.calls
        /\ inv.result = prev.result

C17_Witness ==
    /\ inv.kind = "update" /\ inv.pc = "resolved"
    /\ prev.status = "resolved" /\ OneField(inv.doc)
    /\ "Author" \in DOMAIN inv.doc.f /\ "@Author" \in DOMAIN inv.result.f

\* C18: the document an update resolves to holds every key that doc
\* defines, with the value doc gives it (a written field holds the value
\* that was written, which is the one of doc)
C18_MergedIntoDoc ==
    (inv.kind = "update" /\ inv.pc = "resolved") =>
        \A k \in DOMAIN inv.doc.f :
            inv.doc.f[k] # Undefined =>
                /\ k \in DOMAIN inv.result.f
                /\ inv.result.f[k] = inv.doc.f[k]

\* C19: a create resolves to {id: node, [key]: doc[key]} and, besides, one
\* entry type -> data per createProperty it issued and the two entries
\* type -> target and '@'type -> data of the target per createEdge it
\* issued for an edge of cardinality one, and to no other key with a plain
\* value; with the property Genre declared and no edge,
\* create({Name, Genre}) issues one createNode and one createProperty and
\* resolves to exactly {id, Name, Genre}
C19_CreateResult ==
    (inv.kind = "create" /\ inv.pc = "resolved") =>
        LET r  == inv.result.f
            ps == {j \in Writes : inv.calls[j].fn = "createProperty"}
            es == {j \in Writes : /\ inv.calls[j].fn = "createEdge"
                                  /\ Len(split(inv.calls[j].type)) = 1}
        IN  /\ DOMAIN r = {"id", cfg.key}
                            \cup {inv.calls[j].type : j \in ps}
                            \cup {inv.calls[j].type : j \in es}
                            \cup {"@" \o inv.calls[j].type : j \in es}
            /\ r["id"] = inv.node /\ r["id"] = inv.calls[1].node
            /\ r[cfg.key] = inv.doc.f[cfg.key]
            /\ \A j \in ps : r[inv.calls[j].type] = inv.calls[j].data
            /\ \A j \in es :
                   /\ r[inv.calls[j].type] = inv.calls[j].target
                   /\ r["@" \o inv.calls[j].type]
                          = StoredData(inv.calls[j].target)
            /\ (/\ cfg.edges = <<>> /\ inv.doc.l = NoKeys
                /\ DOMAIN inv.doc.f = {"Name", "Genre"}
                /\ inv.doc.f["Genre"] # Undefined) =>
                   /\ Len(inv.calls) = 2
                   /\ inv.calls[1].fn = "createNode"
                   /\ inv.calls[2].fn = "createProperty"
                   /\ inv.result =
                          [ f |-> [k \in {"id", "Name", "Genre"} |->
                                      IF k = "id" THEN inv.node
                                      ELSE inv.doc.f[k]],
                            l |-> NoKeys ]

C19_Witness ==
    /\ inv.kind = "create" /\ inv.pc = "resolved"
    /\ cfg.edges = <<>> /\ inv.doc.l = NoKeys
    /\ DOMAIN inv.doc.f = {"Name", "Genre"} /\ inv.doc.f["Genre"] = "Fantasy"
    /\ DOMAIN inv.result.f = {"id", "Name", "Genre"}

\* C20: with a tenant configured, the node id a create generates starts
\* with tenant + '#': it is the tenant, '#' and an id of cuid(); createNode
\* and every write receive it, and it is the id of the resolved document
C20_TenantPrefixedId ==
    (inv.kind = "create" /\ inv.pc # "threw" /\ cfg.tenant # Undefined) =>
        /\ \E c \in Cuids : inv.node = cfg.tenant \o "#" \o c
        /\ \A j \in Calls : inv.calls[j].node = inv.node
        /\ inv.pc = "resolved" => inv.result.f["id"] = inv.node

\* C29: once createNode has succeeded and a write of the same create has
\* failed, the create is rejected, no call other than createNode,
\* createProperty and createEdge has been issued for it (no delete), and a
\* call that the store has completed stays completed as it was
C29_NoRollback ==
    [][(/\ inv'.kind = "create"
        /\ inv'.calls # <<>> /\ inv'.calls[1].status = "ok"
        /\ \E j \in 1..Len(inv'.calls) : inv'.calls[j].status = "failed") =>
           /\ inv'.pc = "rejected" /\ inv'.error = "StoreError"
           /\ \A j \in 1..Len(inv'.calls) :
                  inv'.calls[j].fn \in {"createNode", "createProperty",
                                        "createEdge"}
           /\ inv'.id = inv.id =>
                  \A j \in 1..Len(inv.calls) :
                      inv.calls[j].status = "ok" =>
                          inv'.calls[j] = inv.calls[j]]_vars

C29_Witness ==
    /\ inv.kind = "create" /\ inv.pc = "rejected"
    /\ inv.calls[1].status = "ok"
    /\ \E j, k \in Writes :
           inv.calls[j].status = "failed" /\ inv.calls[k].status = "ok"

\* C30: a create, update or get is resolved only when every store call it
\* issued has completed successfully, in whatever order the store answers,
\* and is rejected as soon as one of them has failed
C30_Barrier ==
    (inv.kind \in {"create", "update", "get"}) =>
        /\ inv.pc = "resolved" =>
               \A j \in Calls : inv.calls[j].status = "ok"
        /\ (\E j \in Calls : inv.calls[j].status = "failed") =>
               inv.pc = "rejected"
        /\ (\E j \in Calls : inv.calls[j].status = "pending") =>
               inv.pc \in {"createNode", "writes", "reads", "rejected"}

C30_Witness ==
    /\ inv.kind = "update" /\ inv.pc = "resolved"
    /\ Cardinality(Writes) = 5
    /\ "Likes" \in DOMAIN inv.result.l

\* C21: when the options carry a node generator, create derives the id of
\* the node by calling it with the doc, and produces a random id only when
\* none is configured
C21_NodeGenerator ==
    (inv.kind = "create" /\ inv.pc # "threw") =>
        IF cfg.nodeGenerator = "byName" THEN inv.node = byName(inv.doc)
        ELSE inv.node \in Cuids

\* C22: every validation failure is thrown by the call itself, before any
\* store call.  A call that went on to the store had valid arguments: set
\* a type and data, connect a type and a target, remove a type, create
\* data and a partition count; Model(options) returns only for a defined
\* type and a maxGSIK that is undefined or a number; the schema-driven
\* create, update and destroy throw 'Data is undefined', 'Id is undefined'
\* and 'ID is undefined' exactly when the key field or the id is undefined.
\* A call that threw has issued no store call
C22_ValidationFirst ==
    /\ \A o \in ops :
           /\ o.kind = "set" => o.type # Undefined /\ o.data # Undefined
           /\ o.kind = "connect" => o.type # Undefined /\ o.target # Undefined
           /\ o.kind = "remove" => o.type # Undefined
           /\ o.kind = "create" =>
                  o.data # Undefined /\ o.pre.maxGSIK # NoGSIK
    /\ last.kind = "Model" =>
           /\ last.type = Undefined =>
                  last.status = "threw" /\ last.error = "Type is undefined"
           /\ (last.type # Undefined /\ last.typeofMaxGSIK = "string") =>
                  /\ last.status = "threw"
                  /\ last.error = "Max GSIK is not a number"
    /\ last.status = "threw" =>
           /\ last.issued = 0
           /\ \A o \in ops : o.id # last.id
    /\ inv.kind = "create" =>
           /\ inv.pc = "threw" <=> Scalar(inv.doc, cfg.key) = Undefined
           /\ inv.pc = "threw" => inv.error = "Data is undefined"
    /\ inv.kind = "update" =>
           /\ inv.pc = "threw" <=> Scalar(inv.doc, "id") = Undefined
           /\ inv.pc = "threw" => inv.error = "Id is undefined"
    /\ inv.kind = "destroy" =>
           /\ inv.pc = "threw" <=> Scalar(inv.doc, "id") = Undefined
           /\ inv.pc = "threw" => inv.error = "ID is undefined"
    /\ inv.pc = "threw" => inv.calls = <<>>

C22_Witness ==
    /\ last.kind = "Model" /\ last.status = "threw"
    /\ last.error = "Max GSIK is not a number"
    /\ inv.kind = "destroy" /\ inv.pc = "threw" /\ inv.calls = <<>>

\* C24: collection() issues exactly one store query, with the type, the
\* tenant and the partition count of the receiver, and resolves to a list
\* with one Model per row of the reply, in the order of the rows, each with
\* the node, data, properties and edges of its row and the type and tenant
\* of the receiver
C24_CollectionOneQuery ==
    /\ \A o \in ops :
           o.kind = "collection" =>
               /\ o.issued = 1
               /\ o.query = [ fn |-> "getNodesWithPropertiesAndEdges",
                              type |-> o.pre.type, tenant |-> o.pre.tenant,
                              maxGSIK |-> o.pre.maxGSIK ]
    /\ (Fresh /\ last.kind = "collection") =>
           /\ last.issued = 1
           /\ last.status = "resolved" =>
                  /\ Len(last.list) = Len(last.rows)
                  /\ \A i \in 1..Len(last.rows) :
                         LET v == View(snaps, arrays, last.list[i])
                         IN  /\ v.node = last.rows[i].Node
                             /\ v.data = last.rows[i].Data
                             /\ v.properties = last.rows[i].Properties
                             /\ v.edges = last.rows[i].Edges
                             /\ v.type = last.pre.type
                             /\ v.tenant = last.pre.tenant

C24_Witness ==
    /\ Fresh /\ last.kind = "collection" /\ last.status = "resolved"
    /\ Len(last.list) = 2
    /\ View(snaps, arrays, last.list[1]).node = "n5"
    /\ View(snaps, arrays, last.list[2]).node = "n6"

\* The types of the getNodeType reads of one group, in the order of the calls
TypesRead(group) ==
    LET cs == SelectSeq(inv.calls,
                        LAMBDA c : c.fn = "getNodeType" /\ c.group = group)
    IN  [i \in 1..Len(cs) |-> cs[i].type]

IsDeclared(array, name) == name \in {array[i] : i \in 1..Len(array)}

\* C25: get(doc) issues one getNode read of doc.id and one getNodeType read
\* per requested name that is declared, none for an undeclared name; '$all'
\* stands for every declared property, and for edges for every declared
\* edge that is no list edge
C25_ReadsPerDeclaredName ==
    inv.kind = "get" =>
        /\ Cardinality({j \in Calls : inv.calls[j].fn = "getNode"}) = 1
        /\ inv.calls[1].fn = "getNode" /\ inv.calls[1].node = inv.doc.id
        /\ \A j \in Calls :
               inv.calls[j].fn = "getNodeType" =>
                   /\ inv.calls[j].node = inv.doc.id
                   /\ inv.calls[j].group \in {"properties", "edges"}
        /\ TypesRead("properties") =
               IF inv.doc.properties.tag = "all" THEN cfg.properties
               ELSE SelectSeq(inv.doc.properties.names,
                              LAMBDA n : IsDeclared(cfg.properties, n))
        /\ TypesRead("edges") =
               IF inv.doc.edges.tag = "all"
               THEN SelectSeq(cfg.edges,
                              LAMBDA e : e \notin {"Likes[]", "Likes2[]"})
               ELSE SelectSeq(inv.doc.edges.names,
                              LAMBDA n : IsDeclared(cfg.edges, n))

C25_Witness ==
    /\ inv.kind = "get" /\ inv.pc = "resolved"
    /\ inv.doc.properties = Names(<<"Genre", "Bogus">>)
    /\ inv.doc.edges = All
    /\ TypesRead("properties") = <<"Genre">>
    /\ TypesRead("edges") = <<"Author">>

\* The getNodeTypes reads, in the order of the calls
ListReads == SelectSeq(inv.calls, LAMBDA c : c.fn = "getNodeTypes")

\* C26: get(doc) issues, per element of edgesList whose type is a declared
\* list edge, one getNodeTypes read whose limit is the numeric limit
\* requested, or 10, and whose begins_with value is type#beginsWith when
\* beginsWith is a string, the type otherwise; undeclared list edges are
\* not read
C26_ListQuery ==
    inv.kind = "get" =>
        LET asked == SelectSeq(inv.doc.edgesList,
                               LAMBDA el : IsDeclared(cfg.edges,
                                                      el.type \o "[]"))
        IN  /\ Len(ListReads) = Len(asked)
            /\ \A i \in 1..Len(asked) :
                   /\ ListReads[i].node = inv.doc.id
                   /\ ListReads[i].limit =
                          IF asked[i].limit = NoLimit THEN 10
                          ELSE asked[i].limit
                   /\ ListReads[i].sortKeyValue =
                          IF asked[i].beginsWith = Undefined
                          THEN asked[i].type
                          ELSE asked[i].type \o "#" \o asked[i].beginsWith

C26_Witness ==
    /\ inv.kind = "get" /\ inv.pc = "resolved"
    /\ Len(inv.doc.edgesList) = 2
    /\ Len(ListReads) = 1
    /\ ListReads[1].limit = 10 /\ ListReads[1].sortKeyValue = "Likes"
    /\ Len(ListReads[1].items) = 2

\* C31: the history of the result of a create with edges and no property
\* write is the createNode response followed by the responses of the edge
\* writes in the order in which the edges were supplied
C31_EdgeHistoryInOrder ==
    (Resolved /\ last.kind = "create" /\ Len(last.hist) > 1
        /\ \A k \in 1..Len(last.hist) : last.hist[k].what # "createProperties")
    => /\ last.hist[1].what = "createNode"
       /\ \A k \in 2..Len(last.hist) :
              /\ last.hist[k].what = "createEdge"
              /\ last.hist[k].edge = k - 1

\* C32: the tracker of an operation is its own.  With two operations
\* outstanding on the same Model, the history of every Model that an
\* operation resolved to holds the responses of that operation alone,
\* however the answers of the store interleave
C32_TrackerNotShared ==
    /\ \A i \in Snaps :
           \A k, l \in 1..Len(snaps[i].pubHistory) :
               snaps[i].pubHistory[k].op = snaps[i].pubHistory[l].op
    /\ last.status = "resolved" =>
           LET h == View(snaps, arrays, last.result).history
           IN  /\ h = last.hist
               /\ \A k \in 1..Len(h) : h[k].op = last.id

C32_Witness ==
    /\ last.status = "resolved" /\ last.id = 1 /\ nOps = 2
    /\ Len(View(snaps, arrays, last.result).history) = 2
    /\ \E o \in ops : o.id = 2 /\ o.snap = last.snap /\ o.hist # <<>>

\* C37: the write of a set or connect goes to the node its receiver was
\* bound to when the operation was invoked, also when a get or destroy
\* with another id is invoked on the receiver before the write is issued
C37_WriteToInvocationNode ==
    \A o \in ops :
        (o.kind \in {"set", "connect"} /\ o.pc = "write") =>
            o.node = o.pre.node

\* C33: a declared list edge that doc holds as an empty list produces no
\* edge write for that edge and does not make create or update fail: once
\* every other write has completed the operation is resolved
C33_EmptyListResolves ==
    (/\ WritesIssued
     /\ "Likes" \in ManyEdges
     /\ "Likes" \in DOMAIN inv.doc.l /\ inv.doc.l["Likes"] = <<>>) =>
        /\ \A j \in Writes : inv.calls[j].group # "edgeList"
        /\ (\A j \in Calls : inv.calls[j].status = "ok") =>
               inv.pc = "resolved"

\* C34: get synthesizes no not-found failure: a get is rejected only with
\* the error of a read that failed, so a get whose reads all succeeded,
\* the node row missing or not, is resolved
C34_NoNotFoundFailure ==
    (Fresh /\ last.kind = "get" /\ last.status = "rejected") =>
        last.error = "StoreError"

\* C35: with the log flag set, create appends a CreatedAt and an UpdatedAt
\* property with the same timestamp to the properties of the config before
\* the one createProperties call is issued: with no properties in the config
\* the call carries exactly those two, and the result shows them
C35_LogTimestamps ==
    /\ \A o \in ops :
           (o.kind = "create" /\ o.pc = "writes" /\ snaps[o.snap].log) =>
               LET n == Len(o.config)
               IN  /\ Len(o.props) = n + 2
                   /\ SubSeq(o.props, 1, n) = o.config
                   /\ o.props[n + 1].Type = "CreatedAt"
                   /\ o.props[n + 2].Type = "UpdatedAt"
                   /\ o.props[n + 1].Data = o.props[n + 2].Data
                   /\ o.issued = 2 + Len(o.edges)
    /\ (Resolved /\ last.kind = "create" /\ snaps[last.snap].log) =>
           LET ps == View(snaps, arrays, last.result).properties
               n  == Len(last.config)
           IN  /\ Len(ps) = n + 2
               /\ SubSeq(ps, 1, n) = last.config
               /\ ps[n + 1].Type = "CreatedAt" /\ ps[n + 2].Type = "UpdatedAt"
               /\ ps[n + 1].Data = ps[n + 2].Data
               /\ Cardinality({k \in 1..Len(last.hist) :
                                  last.hist[k].what = "createProperties"}) = 1

C35_Witness ==
    /\ Resolved /\ last.kind = "create" /\ snaps[last.snap].log
    /\ last.config = <<>> /\ last.issued = 2
    /\ Len(View(snaps, arrays, last.result).properties) = 2

\* C36: Model.config(options) stores in the defaults the whitelisted keys
\* of options and no other key, a whitelisted key given as undefined
\* included; it leaves the defaults as they were when options is no
\* object; and it returns the defaults as they are after the call
C36_ConfigWhitelist ==
    [][(inv'.kind = "config" /\ inv'.id # inv.id) =>
           LET arg == inv'.doc
           IN  /\ DOMAIN defaults' \subseteq optionKeys
               /\ "foo" \notin DOMAIN defaults'
               /\ inv'.result.f = defaults'
               /\ ~arg.object => defaults' = defaults
               /\ arg.object =>
                      \A k \in optionKeys :
                          IF k \in DOMAIN arg.o
                          THEN k \in DOMAIN defaults'
                                  /\ defaults'[k] = arg.o[k]
                          ELSE /\ k \in DOMAIN defaults' <=>
                                      k \in DOMAIN defaults
                               /\ k \in DOMAIN defaults =>
                                      defaults'[k] = defaults[k]]_vars

C36_Witness ==
    /\ inv.kind = "config" /\ inv.doc.object
    /\ "foo" \in DOMAIN inv.doc.o /\ "foo" \notin DOMAIN defaults
    /\ defaults["tenant"] = "t2" /\ inv.result.f = defaults

\* C38: a list read of relation T without beginsWith selects only rows of
\* T: with Likes[] and Likes2[] declared, the Likes collection of the
\* resolved get holds no element whose row is of type Likes2#<id>
C38_ListReadOnlyOwnRelation ==
    (/\ inv.kind = "get" /\ inv.pc = "resolved"
     /\ declared(cfg.edges, "Likes[]") /\ declared(cfg.edges, "Likes2[]")
     /\ \E i \in 1..Len(inv.doc.edgesList) :
            /\ inv.doc.edgesList[i].type = "Likes"
            /\ inv.doc.edgesList[i].beginsWith = Undefined) =>
        /\ \A c \in {ListReads[i] : i \in 1..Len(ListReads)} :
               c.edge = "Likes" =>
                   \A k \in 1..Len(c.items) :
                       c.items[k].Type \in {"Likes#k1", "Likes#k2"}
        /\ "Likes" \in DOMAIN inv.result.l
        /\ "k3" \notin DOMAIN inv.result.l["Likes"]

\* C39: a Model takes the defaults when it is built, its own options
\* overriding them: Model.config leaves the options of the Model built
\* before it as they were, and every call of its create and update carries
\* the tenant and the partition count of those options
C39_DefaultsReadAtConstruction ==
    [][/\ (inv'.kind = "config" /\ inv'.id # inv.id) => cfg' = cfg
       /\ (inv'.kind = "Model" /\ inv'.id # inv.id
              /\ inv'.pc = "returned") =>
              /\ \A k \in {"table", "maxGSIK", "tenant"} :
                     cfg'[k] = IF k \in DOMAIN inv'.doc THEN inv'.doc[k]
                               ELSE IF k \in DOMAIN defaults
                               THEN defaults[k] ELSE Undefined
              /\ cfg'["db"] =
                     IF "db" \in DOMAIN defaults THEN defaults["db"]
                     ELSE driver(cfg'["documentClient"], cfg'["table"])
       /\ inv'.kind \in {"create", "update"} =>
              \A j \in 1..Len(inv'.calls) :
                  /\ inv'.calls[j].tenant = cfg'["tenant"]
                  /\ inv'.calls[j].maxGSIK = cfg'["maxGSIK"]]_vars

C39_Witness ==
    /\ inv.kind = "create" /\ inv.pc = "resolved" /\ Len(inv.calls) = 2
    /\ defaults["tenant"] = "t2" /\ cfg["tenant"] = "t1"
    /\ inv.calls[2].tenant = "t1"

====
